---- MODULE Spec2Model ----
(***************************************************************************)
(* Model of NaRAGtive.                                                     *)
(*                                                                         *)
(* naragtive/store_registry.py: the VectorStoreRegistry catalog            *)
(* (registry.json), its default pointer (default.txt) and the temporary    *)
(* file registry.tmp that _save_registry writes before renaming it.        *)
(*   Spec      one Registry instance, every call one atomic action;        *)
(*   SpecFound the same, constructed over a directory found on disk;       *)
(*   SpecTwo   two Registry instances over one directory, atomic calls;    *)
(*   SpecCrash one instance, every file system call one step, the process  *)
(*             may be killed between any two steps and restarted;          *)
(*   SpecConc  two instances, every file system call one step, interleaved.*)
(*                                                                         *)
(* naragtive/polars_vectorstore.py, bge_reranker_integration.py and        *)
(* ingest_chat_transcripts.py: the parquet index, its cosine query, the    *)
(* two-stage orchestrator and the merge of a batch into a store file.      *)
(*   SpecIndex one PolarsVectorStore: load and query;                      *)
(*   SpecOrch  one PolarsVectorStoreWithReranker: query_and_rerank;        *)
(*   SpecMerge one store file: _merge_with_existing;                       *)
(*   SpecMergeUnique the same over files and batches with unique ids;      *)
(*   SpecMergeSteps  the same, every file system call one step, the        *)
(*             ingesting process may be killed between any two steps;      *)
(*   SpecLoad  one PolarsVectorStore over files with corrupt rows too;     *)
(*   SpecLoadQuery one handle, load() and query() in two threads;          *)
(*   SpecRerank one call of BGERerankerM3.rerank.                          *)
(*                                                                         *)
(* naragtive/tui/search_utils.py and tui/widgets/search_history.py:        *)
(*   SpecSearch async_search, its executor thread and its deadline;        *)
(*   SpecFilters one call of apply_filters;                                *)
(*   SpecHistory one SearchHistory widget.                                 *)
(***************************************************************************)
EXTENDS Integers, Sequences, FiniteSets, TLC

\* ------------------------------------------------------------------ bounds

\* largest number of catalog entries an instance is allowed to grow to
MaxStores == 2

\* number of calls started in the step-level and two-instance specifications
MaxOps == 3

\* number of calls started when two instances interleave their file steps
MaxConcOps == 2

\* largest number of records in an index file found on disk
MaxRows == 3

\* largest number of records in an incoming batch
MaxBatch == 2

\* largest number of records in the index file under the orchestrator
MaxOrchRows == 2

\* rerank() is given at most this many documents
MaxDocs == 3

\* rerank() is given a batch_size of 1 up to this
MaxBatchSize == 4

\* a SearchHistory is built with max_items of 1 up to this
MaxItems == 3

\* navigate_up calls counted in a row
MaxNav == 4

\* apply_filters is given at most this many results
MaxResults == 3

\* ------------------------------------------------------------------ inputs

\* Store names offered to the calls.  register() accepts any string, so the
\* set holds the keyword "default" and a name with trailing white space.
Names == {"a", "b", "b ", "default"}

\* Python's str ordering on Names: "a" < "b" < "b " < "default".
NameRank(n) ==
    CASE n = "a" -> 1
      [] n = "b" -> 2
      [] n = "b " -> 3
      [] n = "default" -> 4

\* str.strip() on the texts default.txt can hold (a name, or nothing).
Strip(s) == IF s = "b " THEN "b" ELSE s

\* The value get_default() returns for "no store".
NoneName == "<None>"

\* Records a parquet index file can hold: id, text, embedding and the
\* metadata column, a JSON text.  Embeddings are integer vectors whose norms
\* are whole numbers; "z" has the zero vector, "a" and "b" point the same way.
Row(id, text, emb, meta) ==
    [id |-> id, text |-> text, embedding |-> emb, metadata |-> meta]

Rows ==
    { Row("a", "ta", <<1, 0>>, "{\"scene\": 1}"),
      Row("b", "tb", <<1, 0>>, "{\"scene\": 2}"),
      Row("c", "tc", <<3, 4>>, "{\"scene\": 1}"),
      Row("z", "tz", <<0, 0>>, "{\"scene\": 2}") }

\* the row of Rows with the given id
RowOf(id) == CHOOSE r \in Rows : r.id = id

\* Arguments of register(): path, source_type, and record_count (auto = TRUE
\* stands for record_count=None, detected from the parquet file; otherwise
\* rc is the count the caller passes).
RegisterInputs ==
    { [path |-> "pathA", source_type |-> "neptune", auto |-> TRUE, rc |-> 0],
      [path |-> "pathB", source_type |-> "chat", auto |-> TRUE, rc |-> 0],
      [path |-> "pathB", source_type |-> "chat", auto |-> FALSE, rc |-> 5],
      [path |-> "pathMissing", source_type |-> "neptune", auto |-> TRUE, rc |-> 0] }

Instances == {1, 2}

\* ------------------------------------------------------------------- state

VARIABLES
    stores,          \* stores[i]: instance i's _stores, an insertion-ordered dict
    files,           \* the registry directory: files["reg"], ["tmp"], ["def"]
    pc,              \* pc[i]: where instance i is inside a call
    fd,              \* fd[i]: the file instance i holds open for writing
    call,            \* call[i]: instance i's current or last call and its result
    nops,            \* calls started (step-level and two-instance runs)
    defaultDeleted,  \* a delete removed the pointed-at store and no
                     \* set_default/rename/reopen came after it
    index,           \* the PolarsVectorStore handle: parquet_path, df and
                     \* embeddings_cache
    orch,            \* the PolarsVectorStoreWithReranker: use_reranker, reranker
    ret,             \* the last call on the retrieval side and what it returned
    task,            \* the threads and coroutines of the retrieval side: where
                     \* each one is and the values it holds
    search_history   \* the SearchHistory widget: history, current_index,
                     \* max_items

vars == <<stores, files, pc, fd, call, nops, defaultDeleted, index, orch, ret,
         task, search_history>>

\* ------------------------------------------------------- StoreMetadata

\* pathlib.Path(s) and str(path)
Path(s) == [posix |-> s]

PathStr(p) == p.posix

\* StoreMetadata.to_dict: asdict(self) with the path converted to str
to_dict(meta) == [meta EXCEPT !.path = PathStr(meta.path)]

\* StoreMetadata.from_dict: the path converted back to a Path
from_dict(data) == [data EXCEPT !.path = Path(data.path)]

\* ------------------------------------------------------- the _stores dict

\* A dict is a sequence of items [key, meta] in insertion order.
Keys(st) == { st[k].key : k \in DOMAIN st }

IndexOf(st, name) == CHOOSE k \in DOMAIN st : st[k].key = name

Lookup(st, name) == st[IndexOf(st, name)].meta

\* del d[name]
DictDel(st, name) ==
    LET k == IndexOf(st, name)
    IN  SubSeq(st, 1, k - 1) \o SubSeq(st, k + 1, Len(st))

\* d[name] = meta: replaces the value in place, or appends a new key
DictSet(st, name, meta) ==
    IF name \in Keys(st)
    THEN [st EXCEPT ![IndexOf(st, name)] = [key |-> name, meta |-> meta]]
    ELSE Append(st, [key |-> name, meta |-> meta])

\* sorted(keys)[0]
SortedFirst(S) == CHOOSE n \in S : \A m \in S : NameRank(n) <= NameRank(m)

InsertByName(sorted, m) ==
    LET k == Cardinality({ j \in DOMAIN sorted :
                             NameRank(sorted[j].name) <= NameRank(m.name) })
    IN  SubSeq(sorted, 1, k) \o <<m>> \o SubSeq(sorted, k + 1, Len(sorted))

RECURSIVE SortedByName(_)
\* sorted(values, key=lambda m: m.name), a stable sort
SortedByName(s) ==
    IF s = <<>> THEN <<>>
    ELSE InsertByName(SortedByName(SubSeq(s, 1, Len(s) - 1)), s[Len(s)])

\* mutant: list_stores() returns the values in dict order
list_stores_unsorted(st) == [k \in DOMAIN st |-> st[k].meta]

\* list_stores()
list_stores(st) == SortedByName([k \in DOMAIN st |-> st[k].meta])

\* ------------------------------------------------------------------ files

\* A file is absent, or holds a sequence of tokens written at offset 0.
NoFile == [exists |-> FALSE, data |-> <<>>]

\* open(path, "w"): creates the file or truncates the one that is there
OpenTrunc(fs, f) == [fs EXCEPT ![f] = [exists |-> TRUE, data |-> <<>>]]

\* write(data) through a descriptor at offset 0: overwrites the first
\* Len(data) tokens and leaves whatever lies beyond them
WriteAt0(fs, f, data) ==
    [fs EXCEPT ![f] = [exists |-> TRUE,
                       data |-> data \o SubSeq(@.data, Len(data) + 1, Len(@.data))]]

\* Path.replace(dst): an atomic rename over dst
Replace(fs, src, dst) ==
    IF src = dst THEN fs
    ELSE [fs EXCEPT ![dst] = fs[src], ![src] = NoFile]

\* Path.unlink()
Unlink(fs, f) == [fs EXCEPT ![f] = NoFile]

\* DataFrame.write_parquet: the magic bytes, one token per row, the magic
\* bytes again
WriteParquet(df) ==
    <<[tok |-> "PAR1"]>>
    \o [k \in DOMAIN df |-> [tok |-> "row", row |-> df[k]]]
    \o <<[tok |-> "PAR1"]>>

\* pl.read_parquet accepts the bytes
IsParquet(data) ==
    /\ Len(data) >= 2
    /\ data[1].tok = "PAR1"
    /\ data[Len(data)].tok = "PAR1"
    /\ \A k \in 2..(Len(data) - 1) : data[k].tok = "row"

\* pl.read_parquet: the rows of the file, in file order
ReadParquet(data) == [k \in 1..(Len(data) - 2) |-> data[k + 1].row]

\* The files register() is pointed at: pathA is a parquet file of three
\* records, pathB exists but is not parquet, pathMissing does not exist.
BackingFiles ==
    [pathA |-> [exists |-> TRUE,
                data |-> WriteParquet(<<RowOf("a"), RowOf("b"), RowOf("c")>>)],
     pathB |-> [exists |-> TRUE, data |-> <<[tok |-> "text"]>>],
     pathMissing |-> NoFile]

\* the registry directory before anything was saved in it
EmptyRegistryDir == [f \in {"reg", "tmp", "def"} |-> NoFile]

\* register(): path.exists()
PathExists(p) == files[p].exists

\* register(): pl.read_parquet(path) does not raise
Readable(p) == IsParquet(files[p].data)

\* register(): len(df)
RecordsIn(p) == Len(ReadParquet(files[p].data))

\* json.dumps(data): "{", one token per item in dict order, "}"
Serialize(st) ==
    <<[tok |-> "{"]>>
    \o [k \in DOMAIN st |-> [tok |-> "entry", key |-> st[k].key,
                                value |-> to_dict(st[k].meta)]]
    \o <<[tok |-> "}"]>>

\* json.loads succeeds on the text
WellFormed(data) ==
    /\ Len(data) >= 2
    /\ data[1].tok = "{"
    /\ data[Len(data)].tok = "}"
    /\ \A k \in 2..(Len(data) - 1) : data[k].tok = "entry"

RECURSIVE ParseItems(_, _, _)
\* the dict comprehension of _load_registry over the parsed JSON object,
\* from item k on, added to acc
ParseItems(data, k, acc) ==
    IF k >= Len(data) THEN acc
    ELSE ParseItems(data, k + 1,
                    DictSet(acc, data[k].key, from_dict(data[k].value)))

\* mutant: from a file that cannot be parsed, the entries that can still be
\* read are kept
LoadRegistrySalvages(fs) ==
    IF ~fs["reg"].exists THEN <<>>
    ELSE IF WellFormed(fs["reg"].data) THEN ParseItems(fs["reg"].data, 2, <<>>)
    ELSE ParseItems(<<[tok |-> "{"]>>
                    \o SelectSeq(fs["reg"].data, LAMBDA t : t.tok = "entry")
                    \o <<[tok |-> "}"]>>, 2, <<>>)

\* _load_registry: {} when the file is missing or cannot be parsed
LoadRegistry(fs) ==
    IF ~fs["reg"].exists THEN <<>>
    ELSE IF ~WellFormed(fs["reg"].data) THEN <<>>
    ELSE ParseItems(fs["reg"].data, 2, <<>>)

\* mutant: the catalog is written straight into registry.json
SaveTargetInPlace == "reg"

\* temp_file = REGISTRY_FILE.with_suffix('.tmp')
SaveTarget == "tmp"

\* mutant: the temporary file is written but never renamed over registry.json
SaveRegistryNoRename(fs, st) ==
    WriteAt0(OpenTrunc(fs, SaveTarget), SaveTarget, Serialize(st))

\* _save_registry run to completion: write the temporary file, rename it
SaveRegistry(fs, st) ==
    Replace(WriteAt0(OpenTrunc(fs, SaveTarget), SaveTarget, Serialize(st)),
            SaveTarget, "reg")

\* DEFAULT_FILE.read_text().strip()
PointerText(fs) ==
    IF fs["def"].data = <<>> THEN "" ELSE Strip(fs["def"].data[1])

\* mutant: the pointer file is ignored, the first name always wins
get_default_ignores_pointer(st, fs) ==
    IF st # <<>> THEN SortedFirst(Keys(st)) ELSE NoneName

\* get_default()
get_default(st, fs) ==
    IF fs["def"].exists /\ PointerText(fs) \in Keys(st) THEN PointerText(fs)
    ELSE IF st # <<>> THEN SortedFirst(Keys(st))
    ELSE NoneName

\* DEFAULT_FILE.write_text(name) run to completion
WriteDefault(fs, name) == WriteAt0(OpenTrunc(fs, "def"), "def", <<name>>)

\* ------------------------------------------------- the calls, as functions

\* mutant: register() without the test for an existing name
RegisterResultNoDuplicateTest(st, name, a) ==
    IF ~PathExists(a.path) THEN "FileNotFoundError: parquet"
    ELSE IF a.auto /\ ~Readable(a.path) THEN "ValueError: could not read"
    ELSE "ok"

\* register(): the exception it raises, or "ok"
RegisterResult(st, name, a) ==
    IF name \in Keys(st) THEN "ValueError: already exists"
    ELSE IF ~PathExists(a.path) THEN "FileNotFoundError: parquet"
    ELSE IF a.auto /\ ~Readable(a.path) THEN "ValueError: could not read"
    ELSE "ok"

\* the StoreMetadata register() creates
NewMetadata(name, a) ==
    [name |-> name,
     path |-> Path(a.path),
     created_at |-> "utcnow",
     source_type |-> a.source_type,
     record_count |-> IF a.auto THEN RecordsIn(a.path) ELSE a.rc,
     description |-> ""]

\* self._stores[name] = metadata
RegisterStores(st, name, a) == DictSet(st, name, NewMetadata(name, a))

\* set_default(): the exception it raises, or "ok"
SetDefaultResult(st, name) == IF name \in Keys(st) THEN "ok" ELSE "KeyError"

\* delete(): the exception it raises, or "ok"
DeleteResult(st, name) == IF name \in Keys(st) THEN "ok" ELSE "KeyError"

\* mutant: delete() drops the entry and every entry registered after it
DeleteStoresTruncates(st, name) == SubSeq(st, 1, IndexOf(st, name) - 1)

\* del self._stores[name]
DeleteStores(st, name) == DictDel(st, name)

\* delete(), after _save_registry: clear default.txt if get_default() is
\* still the deleted name
DeleteFinish(fs, st, name) ==
    IF get_default(st, fs) = name /\ fs["def"].exists
    THEN Unlink(fs, "def")
    ELSE fs

\* rename(): the exception it raises, or "ok"
RenameResult(st, old, new) ==
    IF old \notin Keys(st) THEN "KeyError"
    ELSE IF new \in Keys(st) THEN "ValueError: already exists"
    ELSE "ok"

\* rename(): metadata.name = new; _stores[new] = metadata; del _stores[old]
RenameStores(st, old, new) ==
    DictDel(DictSet(st, new, [Lookup(st, old) EXCEPT !.name = new]), old)

\* rename(), after _save_registry: the test that decides whether
\* set_default(new_name) is called
RenameSetsDefault(fs, st, old) == get_default(st, fs) = old

\* get(name): the path of the PolarsVectorStore it returns, or the KeyError
get(st, fs, name) ==
    LET resolved == IF name = "default" THEN get_default(st, fs) ELSE name
    IN  IF name = "default" /\ resolved = NoneName THEN "KeyError"
        ELSE IF resolved \notin Keys(st) THEN "KeyError"
        ELSE PathStr(Path(PathStr(Lookup(st, resolved).path)))

\* the explicit default pointer names the registered store `name`
PointerNames(st, fs, name) ==
    fs["def"].exists /\ PointerText(fs) = name /\ name \in Keys(st)

\* the record kept of a call: what was asked, how it ended, the state before
CallRecord(i, op, name, arg, result, post) ==
    [op |-> op, name |-> name, arg |-> arg, result |-> result, seq |-> nops,
     preStores |-> stores[i], preFiles |-> files, postStores |-> post,
     data |-> <<>>]

\* ------------------------------------ the retrieval side, not constructed

\* PolarsVectorStore.__init__: the path is kept, df and embeddings_cache are
\* None (loaded = FALSE)
NewHandle(path) == [path |-> path, loaded |-> FALSE, df |-> <<>>, cache |-> <<>>]

\* no orchestrator object
NoOrchestrator ==
    [use_reranker |-> FALSE, reranker |-> "none", init_failed |-> FALSE,
     invoked |-> FALSE]

\* no call made on the retrieval side
NoRetrieval ==
    [op |-> "none", query |-> "", k |-> 0, final_k |-> 0, normalize |-> FALSE,
     result |-> "ok", out |-> <<>>, sims |-> <<>>, top |-> <<>>,
     batch |-> <<>>, pre |-> NoFile]

\* SearchHistory.__init__
NewSearchHistory(max_items) ==
    [history |-> <<>>, current_index |-> -1, max_items |-> max_items]

\* max_items: int = 5
DefaultMaxItems == 5

\* no thread or coroutine started
NoTasks ==
    [merge |-> [pc |-> "idle", batch |-> <<>>, pre |-> NoFile,
                merged |-> <<>>, written |-> 0],
     load |-> [pc |-> "idle"],
     query |-> [pc |-> "idle", q |-> "", k |-> 0, sims |-> <<>>, top |-> <<>>],
     search |-> [pc |-> "idle", worker |-> "none", q |-> "", k |-> 0,
                 raised |-> "", err |-> "", out |-> <<>>]]

\* no call made on the widgets, no thread or coroutine started
UiIdle ==
    /\ task = NoTasks
    /\ search_history = NewSearchHistory(DefaultMaxItems)

\* the registry specifications make no call on the retrieval side
RetrievalIdle ==
    /\ index = NewHandle("pathA")
    /\ orch = NoOrchestrator
    /\ ret = NoRetrieval
    /\ UiIdle

\* --------------------------------------------------------------- Init

Init ==
    /\ files = EmptyRegistryDir @@ BackingFiles
    /\ stores = [i \in Instances |-> LoadRegistry(files)]
    /\ pc = [i \in Instances |-> "idle"]
    /\ fd = [i \in Instances |-> "none"]
    /\ call = [i \in Instances |->
                 [op |-> "init", name |-> "", arg |-> "", result |-> "ok",
                  seq |-> 0, preStores |-> <<>>, preFiles |-> files,
                  postStores |-> <<>>, data |-> <<>>]]
    /\ nops = 0
    /\ defaultDeleted = FALSE
    /\ RetrievalIdle

\* ------------------------------------------------- calls as atomic actions

\* register(name, path, source_type, record_count)
Register(i, name, a) ==
    LET res == RegisterResult(stores[i], name, a)
        post == IF res = "ok" THEN RegisterStores(stores[i], name, a)
                ELSE stores[i]
    IN  /\ pc[i] = "idle"
        /\ res = "ok" => Len(stores[i]) < MaxStores
        /\ stores' = [stores EXCEPT ![i] = post]
        /\ files' = IF res = "ok" THEN SaveRegistry(files, post) ELSE files
        /\ call' = [call EXCEPT ![i] =
                      CallRecord(i, "register", name, a.path, res, post)]
        /\ UNCHANGED <<pc, fd, defaultDeleted, index, orch, ret,
                   task, search_history>>

\* mutant: set_default writes default.txt before it looks the name up
SetDefaultWritesFirst(i, name) ==
    LET res == SetDefaultResult(stores[i], name)
    IN  /\ pc[i] = "idle"
        /\ files' = WriteDefault(files, name)
        /\ call' = [call EXCEPT ![i] =
                      CallRecord(i, "set_default", name, "", res, stores[i])]
        /\ defaultDeleted' = FALSE
        /\ UNCHANGED <<stores, pc, fd, index, orch, ret,
                       task, search_history>>

\* set_default(name)
SetDefault(i, name) ==
    LET res == SetDefaultResult(stores[i], name)
    IN  /\ pc[i] = "idle"
        /\ files' = IF res = "ok" THEN WriteDefault(files, name) ELSE files
        /\ call' = [call EXCEPT ![i] =
                      CallRecord(i, "set_default", name, "", res, stores[i])]
        /\ defaultDeleted' = FALSE
        /\ UNCHANGED <<stores, pc, fd, index, orch, ret,
                   task, search_history>>

\* delete(name)
Delete(i, name) ==
    LET res == DeleteResult(stores[i], name)
        post == IF res = "ok" THEN DeleteStores(stores[i], name) ELSE stores[i]
    IN  /\ pc[i] = "idle"
        /\ stores' = [stores EXCEPT ![i] = post]
        /\ files' = IF res = "ok"
                     THEN DeleteFinish(SaveRegistry(files, post), post, name)
                     ELSE files
        /\ call' = [call EXCEPT ![i] =
                      CallRecord(i, "delete", name, "", res, post)]
        /\ defaultDeleted' =
               (defaultDeleted
                \/ (res = "ok" /\ PointerNames(stores[i], files, name)))
        /\ UNCHANGED <<pc, fd, index, orch, ret,
                   task, search_history>>

\* rename(old_name, new_name)
Rename(i, old, new) ==
    LET res == RenameResult(stores[i], old, new)
        post == IF res = "ok" THEN RenameStores(stores[i], old, new)
                ELSE stores[i]
        saved == SaveRegistry(files, post)
    IN  /\ pc[i] = "idle"
        /\ stores' = [stores EXCEPT ![i] = post]
        /\ files' = IF res # "ok" THEN files
                     ELSE IF RenameSetsDefault(saved, post, old)
                          THEN WriteDefault(saved, new)
                          ELSE saved
        /\ call' = [call EXCEPT ![i] =
                      CallRecord(i, "rename", old, new, res, post)]
        /\ defaultDeleted' = FALSE
        /\ UNCHANGED <<pc, fd, index, orch, ret,
                   task, search_history>>

\* VectorStoreRegistry(): a new instance over the same directory takes the
\* place of instance i (the process is started again)
Reopen(i) ==
    /\ pc[i] = "idle"
    /\ stores' = [stores EXCEPT ![i] = LoadRegistry(files)]
    /\ call' = [call EXCEPT ![i] =
                  CallRecord(i, "init", "", "", "ok", LoadRegistry(files))]
    /\ defaultDeleted' = FALSE
    /\ UNCHANGED <<files, pc, fd, index, orch, ret,
                   task, search_history>>

\* One Registry instance; every call is one step.
Next ==
    \/ \E name \in Names, a \in RegisterInputs :
           Register(1, name, a) /\ UNCHANGED nops
    \/ \E name \in Names : SetDefault(1, name) /\ UNCHANGED nops
    \/ \E name \in Names : Delete(1, name) /\ UNCHANGED nops
    \/ \E old \in Names, new \in Names : Rename(1, old, new) /\ UNCHANGED nops
    \/ Reopen(1) /\ UNCHANGED nops

Spec == Init /\ [][Next]_vars

\* ------------------------------------- calls as sequences of file steps

\* a call that passed its checks and changed _stores; its file steps follow
Started(i, op, name, arg, res, post, data) ==
    [CallRecord(i, op, name, arg, IF res = "ok" THEN "running" ELSE res, post)
       EXCEPT !.data = data]

\* one more call is started, within the budget of calls
Budget == nops < MaxOps /\ nops' = nops + 1

\* register() up to `self._stores[name] = metadata`
RegisterBegin(i, name, a) ==
    LET res == RegisterResult(stores[i], name, a)
        post == IF res = "ok" THEN RegisterStores(stores[i], name, a)
                ELSE stores[i]
    IN  /\ pc[i] = "idle"
        /\ Budget
        /\ res = "ok" => Len(stores[i]) < MaxStores
        /\ stores' = [stores EXCEPT ![i] = post]
        /\ pc' = [pc EXCEPT ![i] = IF res = "ok" THEN "save_open" ELSE "idle"]
        /\ call' = [call EXCEPT ![i] =
                      Started(i, "register", name, a.path, res, post, <<>>)]
        /\ UNCHANGED <<files, fd, defaultDeleted, index, orch, ret,
                   task, search_history>>

\* delete() up to `del self._stores[name]`
DeleteBegin(i, name) ==
    LET res == DeleteResult(stores[i], name)
        post == IF res = "ok" THEN DeleteStores(stores[i], name) ELSE stores[i]
    IN  /\ pc[i] = "idle"
        /\ Budget
        /\ stores' = [stores EXCEPT ![i] = post]
        /\ pc' = [pc EXCEPT ![i] = IF res = "ok" THEN "save_open" ELSE "idle"]
        /\ call' = [call EXCEPT ![i] =
                      Started(i, "delete", name, "", res, post, <<>>)]
        /\ UNCHANGED <<files, fd, defaultDeleted, index, orch, ret,
                   task, search_history>>

\* rename() up to `del self._stores[old_name]`
RenameBegin(i, old, new) ==
    LET res == RenameResult(stores[i], old, new)
        post == IF res = "ok" THEN RenameStores(stores[i], old, new)
                ELSE stores[i]
    IN  /\ pc[i] = "idle"
        /\ Budget
        /\ stores' = [stores EXCEPT ![i] = post]
        /\ pc' = [pc EXCEPT ![i] = IF res = "ok" THEN "save_open" ELSE "idle"]
        /\ call' = [call EXCEPT ![i] =
                      Started(i, "rename", old, new, res, post, <<>>)]
        /\ UNCHANGED <<files, fd, defaultDeleted, index, orch, ret,
                   task, search_history>>

\* set_default() up to its membership test
SetDefaultBegin(i, name) ==
    LET res == SetDefaultResult(stores[i], name)
    IN  /\ pc[i] = "idle"
        /\ Budget
        /\ pc' = [pc EXCEPT ![i] = IF res = "ok" THEN "sd_open" ELSE "idle"]
        /\ call' = [call EXCEPT ![i] =
                      Started(i, "set_default", name, "", res, stores[i],
                              <<name>>)]
        /\ UNCHANGED <<stores, files, fd, defaultDeleted, index, orch, ret,
                   task, search_history>>

\* _save_registry: json.dumps(data), then write_text opens the temporary file
SaveOpen(i) ==
    /\ pc[i] = "save_open"
    /\ files' = OpenTrunc(files, SaveTarget)
    /\ fd' = [fd EXCEPT ![i] = SaveTarget]
    /\ call' = [call EXCEPT ![i].data = Serialize(stores[i])]
    /\ pc' = [pc EXCEPT ![i] = "save_write"]
    /\ UNCHANGED <<stores, nops, defaultDeleted, index, orch, ret,
                   task, search_history>>

\* _save_registry: write_text writes the text through its descriptor and
\* closes it.  The descriptor follows the file it opened through a rename.
SaveWrite(i) ==
    /\ pc[i] = "save_write"
    /\ files' = IF fd[i] = "orphan" THEN files
                 ELSE WriteAt0(files, fd[i], call[i].data)
    /\ fd' = [fd EXCEPT ![i] = "none"]
    /\ pc' = [pc EXCEPT ![i] = "save_replace"]
    /\ UNCHANGED <<stores, call, nops, defaultDeleted, index, orch, ret,
                   task, search_history>>

\* where open descriptors point after src was renamed over dst
AfterReplace(f, src, dst) ==
    IF src = dst THEN f
    ELSE [j \in Instances |->
            IF f[j] = src THEN dst
            ELSE IF f[j] = dst THEN "orphan"
            ELSE f[j]]

\* _save_registry: temp_file.replace(REGISTRY_FILE); FileNotFoundError when
\* the temporary file is not there.  register() returns after it.
SaveReplace(i) ==
    /\ pc[i] = "save_replace"
    /\ IF files[SaveTarget].exists
       THEN /\ files' = Replace(files, SaveTarget, "reg")
            /\ fd' = AfterReplace(fd, SaveTarget, "reg")
            /\ pc' = [pc EXCEPT ![i] = IF call[i].op = "register" THEN "idle"
                                        ELSE "finish"]
            /\ call' = [call EXCEPT ![i].result =
                          IF call[i].op = "register" THEN "ok" ELSE "running"]
       ELSE /\ pc' = [pc EXCEPT ![i] = "idle"]
            /\ call' = [call EXCEPT ![i].result =
                          "FileNotFoundError: registry.tmp"]
            /\ UNCHANGED <<files, fd>>
    /\ UNCHANGED <<stores, nops, defaultDeleted, index, orch, ret,
                   task, search_history>>

\* delete() and rename() after _save_registry: the get_default() test, and
\* the unlink of default.txt (delete) or the call of set_default (rename)
Finish(i) ==
    /\ pc[i] = "finish"
    /\ IF call[i].op = "delete"
       THEN /\ files' = DeleteFinish(files, stores[i], call[i].name)
            /\ fd' = IF files'["def"] = files["def"] THEN fd
                      ELSE [j \in Instances |->
                              IF fd[j] = "def" THEN "orphan" ELSE fd[j]]
            /\ pc' = [pc EXCEPT ![i] = "idle"]
            /\ call' = [call EXCEPT ![i].result = "ok"]
       ELSE IF RenameSetsDefault(files, stores[i], call[i].name)
            THEN /\ pc' = [pc EXCEPT ![i] = "sd_open"]
                 /\ call' = [call EXCEPT ![i].data = <<call[i].arg>>]
                 /\ UNCHANGED <<files, fd>>
            ELSE /\ pc' = [pc EXCEPT ![i] = "idle"]
                 /\ call' = [call EXCEPT ![i].result = "ok"]
                 /\ UNCHANGED <<files, fd>>
    /\ UNCHANGED <<stores, nops, defaultDeleted, index, orch, ret,
                   task, search_history>>

\* set_default: DEFAULT_FILE.write_text(name) opens default.txt for writing
SdOpen(i) ==
    /\ pc[i] = "sd_open"
    /\ files' = OpenTrunc(files, "def")
    /\ fd' = [fd EXCEPT ![i] = "def"]
    /\ pc' = [pc EXCEPT ![i] = "sd_write"]
    /\ UNCHANGED <<stores, call, nops, defaultDeleted, index, orch, ret,
                   task, search_history>>

\* set_default: write_text writes the name and closes the file
SdWrite(i) ==
    /\ pc[i] = "sd_write"
    /\ files' = IF fd[i] = "orphan" THEN files
                 ELSE WriteAt0(files, fd[i], call[i].data)
    /\ fd' = [fd EXCEPT ![i] = "none"]
    /\ pc' = [pc EXCEPT ![i] = "idle"]
    /\ call' = [call EXCEPT ![i].result = "ok"]
    /\ UNCHANGED <<stores, nops, defaultDeleted, index, orch, ret,
                   task, search_history>>

\* the process of instance i is killed inside a call: its memory and its
\* descriptor are gone, the files stay as they are
Crash(i) ==
    /\ pc[i] \notin {"idle", "crashed"}
    /\ pc' = [pc EXCEPT ![i] = "crashed"]
    /\ stores' = [stores EXCEPT ![i] = <<>>]
    /\ fd' = [fd EXCEPT ![i] = "none"]
    /\ UNCHANGED <<files, call, nops, defaultDeleted, index, orch, ret,
                   task, search_history>>

\* the process is started again: VectorStoreRegistry() loads registry.json
Restart(i) ==
    /\ pc[i] = "crashed"
    /\ stores' = [stores EXCEPT ![i] = LoadRegistry(files)]
    /\ pc' = [pc EXCEPT ![i] = "idle"]
    /\ call' = [call EXCEPT ![i] =
                  CallRecord(i, "init", "", "", "ok", LoadRegistry(files))]
    /\ UNCHANGED <<files, fd, nops, defaultDeleted, index, orch, ret,
                   task, search_history>>

\* One instance, one file system call per step, killed at any step.
NextCrash ==
    \/ \E name \in Names, a \in RegisterInputs : RegisterBegin(1, name, a)
    \/ \E name \in Names : DeleteBegin(1, name)
    \/ \E old \in Names, new \in Names : RenameBegin(1, old, new)
    \/ \E name \in Names : SetDefaultBegin(1, name)
    \/ SaveOpen(1)
    \/ SaveWrite(1)
    \/ SaveReplace(1)
    \/ Finish(1)
    \/ SdOpen(1)
    \/ SdWrite(1)
    \/ Crash(1)
    \/ Restart(1)

SpecCrash == Init /\ [][NextCrash]_vars

\* Two instances over one directory, their file system calls interleaved.
NextConc ==
    \E i \in Instances :
        \/ \E name \in Names, a \in RegisterInputs :
               nops < MaxConcOps /\ RegisterBegin(i, name, a)
        \/ \E name \in Names : nops < MaxConcOps /\ DeleteBegin(i, name)
        \/ \E old \in Names, new \in Names :
               nops < MaxConcOps /\ RenameBegin(i, old, new)
        \/ \E name \in Names : nops < MaxConcOps /\ SetDefaultBegin(i, name)
        \/ SaveOpen(i)
        \/ SaveWrite(i)
        \/ SaveReplace(i)
        \/ Finish(i)
        \/ SdOpen(i)
        \/ SdWrite(i)

SpecConc == Init /\ [][NextConc]_vars

\* Two instances over one directory, every call one step.
NextTwo ==
    \E i \in Instances :
        \/ \E name \in Names, a \in RegisterInputs :
               Budget /\ Register(i, name, a)
        \/ \E name \in Names : Budget /\ SetDefault(i, name)
        \/ \E name \in Names : Budget /\ Delete(i, name)
        \/ \E old \in Names, new \in Names : Budget /\ Rename(i, old, new)

SpecTwo == Init /\ [][NextTwo]_vars

\* ------------------------------- a Registry over a directory found on disk

\* a catalog entry written by an earlier process
FoundEntry ==
    [key |-> "a",
     meta |-> [name |-> "a", path |-> Path("pathA"), created_at |-> "earlier",
               source_type |-> "neptune", record_count |-> 3,
               description |-> ""]]

\* registry.json as the constructor can find it: missing, empty, cut off
\* before its closing brace, or JSON that is not an object
FoundCatalogs ==
    { NoFile,
      [exists |-> TRUE, data |-> <<>>],
      [exists |-> TRUE,
       data |-> SubSeq(Serialize(<<FoundEntry>>), 1,
                       Len(Serialize(<<FoundEntry>>)) - 1)],
      [exists |-> TRUE, data |-> <<[tok |-> "["], [tok |-> "]"]>>] }

\* default.txt as the constructor can find it
FoundPointers == { NoFile, [exists |-> TRUE, data |-> <<"a">>] }

\* VectorStoreRegistry() over a directory left by earlier processes: instance
\* 1 is constructed over it, no other instance runs
InitFound ==
    /\ \E reg \in FoundCatalogs, def \in FoundPointers :
           files = [EmptyRegistryDir EXCEPT !["reg"] = reg, !["def"] = def]
                   @@ BackingFiles
    /\ stores = [i \in Instances |->
                   IF i = 1 THEN LoadRegistry(files) ELSE <<>>]
    /\ pc = [i \in Instances |-> "idle"]
    /\ fd = [i \in Instances |-> "none"]
    /\ call = [i \in Instances |->
                 [op |-> "init", name |-> "", arg |-> "", result |-> "ok",
                  seq |-> 0, preStores |-> <<>>,
                  preFiles |-> IF i = 1 THEN files
                               ELSE EmptyRegistryDir @@ BackingFiles,
                  postStores |-> IF i = 1 THEN LoadRegistry(files) ELSE <<>>,
                  data |-> <<>>]]
    /\ nops = 0
    /\ defaultDeleted = FALSE
    /\ RetrievalIdle

\* One Registry instance constructed over a found directory; atomic calls.
SpecFound == InitFound /\ [][Next]_vars

\* ------------------------------------------------------ floats, on a grid

\* The float 1.0.  Floats are whole multiples of 1/One, or not-a-number; the
\* embeddings offered (Rows, Encode) keep every quotient and product of the
\* similarity computation on the grid.
One == 25

F(v) == [nan |-> FALSE, v |-> v]

\* the result of 0/0
NaN == [nan |-> TRUE, v |-> 0]

\* np.array(..., dtype=np.float32) of a whole number
ToFloat(x) == F(x * One)

FAdd(a, b) == IF a.nan \/ b.nan THEN NaN ELSE F(a.v + b.v)

FSub(a, b) == IF a.nan \/ b.nan THEN NaN ELSE F(a.v - b.v)

FNeg(a) == IF a.nan THEN NaN ELSE F(0 - a.v)

FMul(a, b) == IF a.nan \/ b.nan THEN NaN ELSE F((a.v * b.v) \div One)

\* a / b with numpy's default error state: 0/0 is nan and only warns.  The
\* divisor is a norm; a zero norm meets only zero components.
FDiv(a, b) ==
    IF a.nan \/ b.nan THEN NaN
    ELSE IF b.v = 0 THEN NaN
    ELSE F((a.v * One) \div b.v)

\* a <= b as IEEE compares: false when either side is nan
FLe(a, b) == ~a.nan /\ ~b.nan /\ a.v <= b.v

\* the order numpy sorts by: numbers ascending, nan after every number
SortsBefore(a, b) == ~a.nan /\ (b.nan \/ a.v < b.v)

\* np.linalg.norm of one embedding
Norm(e) ==
    LET ss == e[1] * e[1] + e[2] * e[2]
    IN  ToFloat(CHOOSE n \in 0..ss : n * n = ss)

\* ------------------------------------------------------ sequences, as numpy

Min(a, b) == IF a <= b THEN a ELSE b

\* s[:k] for k >= 0
Take(s, k) == SubSeq(s, 1, Min(k, Len(s)))

\* s[::-1]
Reverse(s) == [j \in 1..Len(s) |-> s[Len(s) + 1 - j]]

\* the index orders of arrays of up to MaxRows + 1 elements
Perms ==
    [n \in 0..(MaxRows + 1) |->
        { p \in [1..n -> 1..n] : \A i, j \in 1..n : i # j => p[i] # p[j] }]

\* np.argsort(x) with the default kind, which is not stable: every index
\* order that puts x in ascending order, equal values in any order
ArgSorts(x) ==
    { p \in Perms[Len(x)] :
        \A i, j \in 1..Len(x) : i < j => ~SortsBefore(x[p[j]], x[p[i]]) }

\* ------------------------------------------------------- PolarsVectorStore

\* json.loads of the metadata column
JsonLoads(m) ==
    CASE m = "{\"scene\": 1}" -> [scene |-> 1]
      [] m = "{\"scene\": 2}" -> [scene |-> 2]
      [] m = "{\"scene\": 3}" -> [scene |-> 3]

\* query texts
Queries == {"q1", "q2"}

\* embedding_model.encode(query_text): an encoder's output is not the zero
\* vector
Encode(q) == IF q = "q1" THEN <<1, 0>> ELSE <<3, 4>>

\* np.array(list of embeddings, dtype=np.float32) accepts the rows: they all
\* have one length
Rectangular(df) ==
    \A j, k \in DOMAIN df : Len(df[j].embedding) = Len(df[k].embedding)

\* load(): how it ends; read_parquet raises on a file that is not parquet,
\* np.array raises on embeddings of different lengths
LoadResult(h, fs) ==
    IF ~fs[h.path].exists THEN "False"
    ELSE IF ~IsParquet(fs[h.path].data) THEN "error"
    ELSE IF ~Rectangular(ReadParquet(fs[h.path].data)) THEN "error"
    ELSE "True"

\* load(): self.df = pl.read_parquet(self.parquet_path)
ReadInto(h, fs) ==
    [h EXCEPT !.loaded = TRUE, !.df = ReadParquet(fs[h.path].data)]

\* load(): self.embeddings_cache = np.array(self.df["embedding"].to_list())
CacheInto(h) == [h EXCEPT !.cache = [k \in DOMAIN h.df |-> h.df[k].embedding]]

\* load(): the handle after it; df is assigned when the file was read, and
\* embeddings_cache after it when np.array accepted the embeddings
LoadHandle(h, fs) ==
    IF ~fs[h.path].exists \/ ~IsParquet(fs[h.path].data) THEN h
    ELSE IF ~Rectangular(ReadParquet(fs[h.path].data)) THEN ReadInto(h, fs)
    ELSE CacheInto(ReadInto(h, fs))

\* query(): `if self.df is None: self.load()`
LazyLoad(h, fs) == IF h.loaded THEN h ELSE LoadHandle(h, fs)

\* query(): norms, normalized, query_norm, similarities
Similarities(cache, query_emb) ==
    LET qn == Norm(query_emb)
        q == [c \in 1..2 |-> FDiv(ToFloat(query_emb[c]), qn)]
    IN  [k \in DOMAIN cache |->
            LET n == Norm(cache[k])
                e == [c \in 1..2 |-> FDiv(ToFloat(cache[k][c]), n)]
            IN  FAdd(FMul(e[1], q[1]), FMul(e[2], q[2]))]

\* query(): np.linalg.norm(embeddings_cache, axis=1) raises when the cache
\* is None or has no rows
QueryResult(h, fs) ==
    IF LoadResult(h, fs) = "error" /\ ~h.loaded THEN "error"
    ELSE IF ~LazyLoad(h, fs).loaded \/ LazyLoad(h, fs).cache = <<>>
         THEN "error"
    ELSE "ok"

\* query(): top_indices out of one result of argsort
TopIndices(order, n_results) == Take(Reverse(order), n_results)

\* query(): the dict returned for top_indices
QueryOut(h, sims, top) ==
    LET distances == [j \in DOMAIN top |-> FSub(ToFloat(1), sims[top[j]])]
    IN  [ids |-> [j \in DOMAIN top |-> h.df[top[j]].id],
         documents |-> [j \in DOMAIN top |-> h.df[top[j]].text],
         metadatas |-> [j \in DOMAIN top |-> JsonLoads(h.df[top[j]].metadata)],
         distances |-> [j \in DOMAIN top |-> <<distances[j]>>],
         scores |-> [j \in DOMAIN top |-> FSub(ToFloat(1), distances[j])]]

\* the registry side when no Registry call is made
RegistryIdle ==
    /\ stores = [i \in Instances |-> <<>>]
    /\ pc = [i \in Instances |-> "idle"]
    /\ fd = [i \in Instances |-> "none"]
    /\ call = [i \in Instances |->
                 [op |-> "init", name |-> "", arg |-> "", result |-> "ok",
                  seq |-> 0, preStores |-> <<>>,
                  preFiles |-> EmptyRegistryDir @@ BackingFiles,
                  postStores |-> <<>>, data |-> <<>>]]
    /\ nops = 0
    /\ defaultDeleted = FALSE

registryVars == <<stores, pc, fd, call, nops, defaultDeleted>>

uiVars == <<task, search_history>>

\* the sequences over S of length at most n
SeqsUpTo(S, n) == UNION { [1..m -> S] : m \in 0..n }

\* n_results, initial_k and final_k offered: zero up to more than any index
\* holds
MaxK == MaxRows + 1

\* the parquet files a store can be pointed at: every sequence of at most
\* MaxRows records
IndexFiles ==
    { [exists |-> TRUE, data |-> WriteParquet(df)] : df \in SeqsUpTo(Rows, MaxRows) }

\* PolarsVectorStore(path) over a file that is missing, is not parquet, or
\* is an index file
InitIndex ==
    /\ \E f \in IndexFiles \cup {NoFile, BackingFiles["pathB"]} :
           files = EmptyRegistryDir @@ [BackingFiles EXCEPT !["pathA"] = f]
    /\ index = NewHandle("pathA")
    /\ orch = NoOrchestrator
    /\ ret = NoRetrieval
    /\ UiIdle
    /\ RegistryIdle

\* load()
Load ==
    /\ index' = LoadHandle(index, files)
    /\ ret' = [NoRetrieval EXCEPT !.op = "load",
                                  !.result = LoadResult(index, files)]
    /\ UNCHANGED <<files, orch, registryVars, uiVars>>

\* query(query_text, n_results)
Query(q, k) ==
    \E h \in {LazyLoad(index, files)} :
    \E sims \in {Similarities(h.cache, Encode(q))} :
        LET asked == [NoRetrieval EXCEPT !.op = "query", !.query = q, !.k = k]
        IN  /\ index' = h
            /\ IF QueryResult(index, files) = "error"
               THEN ret' = [asked EXCEPT !.result = "error"]
               ELSE \E order \in ArgSorts(sims) :
                    \E top \in {TopIndices(order, k)} :
                        ret' = [asked EXCEPT !.out = QueryOut(h, sims, top),
                                             !.sims = sims,
                                             !.top = top]
            /\ UNCHANGED <<files, orch, registryVars, uiVars>>

NextIndex ==
    \/ Load
    \/ \E q \in Queries, k \in 0..MaxK : Query(q, k)

\* One PolarsVectorStore over one file; every call is one step.
SpecIndex == InitIndex /\ [][NextIndex]_vars

\* ------------------------------------------- PolarsVectorStoreWithReranker

\* mutant: a failed adapter construction leaves the orchestrator as requested
OrchInitNoFallback(use_reranker, adapter_loads) ==
    [use_reranker |-> use_reranker,
     reranker |-> IF use_reranker THEN "bge" ELSE "none",
     init_failed |-> use_reranker /\ ~adapter_loads,
     invoked |-> FALSE]

\* PolarsVectorStoreWithReranker.__init__: BGERerankerM3() is tried when
\* use_reranker is set; when it raises, reranker stays None and use_reranker
\* is cleared.  init_failed and invoked record history.
OrchInit(use_reranker, adapter_loads) ==
    [use_reranker |-> use_reranker /\ adapter_loads,
     reranker |-> IF use_reranker /\ adapter_loads THEN "bge" ELSE "none",
     init_failed |-> use_reranker /\ ~adapter_loads,
     invoked |-> FALSE]

\* query_and_rerank(): the negation of `not self.use_reranker or not
\* self.reranker`
Enabled(o) == o.use_reranker /\ o.reranker # "none"

\* the cross-encoder's logit for a query and a document text
Logit(q, text) ==
    IF q = "q1"
    THEN CASE text = "ta" -> ToFloat(2)
           [] text = "tb" -> ToFloat(0)
           [] text = "tc" -> ToFloat(2)
           [] text = "tz" -> ToFloat(40)
    ELSE CASE text = "ta" -> ToFloat(0 - 1)
           [] text = "tb" -> ToFloat(40)
           [] text = "tc" -> ToFloat(50)
           [] text = "tz" -> ToFloat(0)

\* 1 / (1 + np.exp(-x)) on the logits above, rounded to the grid; it is 1.0
\* for 40 and for 50, as it is in float64
Sigmoid(x) ==
    CASE x = ToFloat(0 - 1) -> F(7)
      [] x = ToFloat(0) -> F(12)
      [] x = ToFloat(2) -> F(22)
      [] x = ToFloat(40) -> F(One)
      [] x = ToFloat(50) -> F(One)

\* rerank(): batch_size when the caller passes none
DefaultBatchSize == 32

\* mutant: the scores come out in the reverse of the documents' order
RerankScoresReversed(q, documents, i, batch_size) ==
    [j \in DOMAIN documents |-> Logit(q, documents[Len(documents) + 1 - j])]

RECURSIVE RerankScores(_, _, _, _)
\* rerank(): all_scores, extended batch by batch from document i on
RerankScores(q, documents, i, batch_size) ==
    IF i > Len(documents) THEN <<>>
    ELSE LET batch_docs == SubSeq(documents, i,
                                  Min(i + batch_size - 1, Len(documents)))
         IN  [j \in DOMAIN batch_docs |-> Logit(q, batch_docs[j])]
             \o RerankScores(q, documents, i + batch_size, batch_size)

\* rerank(): the sigmoid, when normalize is set
Normalized(scores, normalize) ==
    IF normalize THEN [j \in DOMAIN scores |-> Sigmoid(scores[j])] ELSE scores

\* rerank(): the results of np.argsort(-scores)
RerankIndices(scores) ==
    ArgSorts([j \in DOMAIN scores |-> FNeg(scores[j])])

\* mutant: the fallback result in reverse order
FallbackResultReversed(results) ==
    [ids |-> Reverse(results.ids),
     documents |-> Reverse(results.documents),
     metadatas |-> Reverse(results.metadatas),
     scores |-> Reverse(results.scores),
     reranked |-> FALSE,
     rerank_method |-> "none"]

\* query_and_rerank(): the dict returned without reranking
FallbackResult(results) ==
    [ids |-> results.ids,
     documents |-> results.documents,
     metadatas |-> results.metadatas,
     scores |-> results.scores,
     reranked |-> FALSE,
     rerank_method |-> "none"]

\* mutant: every reranked candidate is kept
KeepTopFinalAll(indices, final_k) == indices

\* query_and_rerank(): top_indices = indices[:final_k]
KeepTopFinal(indices, final_k) == Take(indices, final_k)

\* query_and_rerank(): the dict returned after reranking
RerankedResult(results, rerank_scores, top_indices, initial_k) ==
    [ids |-> [j \in DOMAIN top_indices |-> results.ids[top_indices[j]]],
     documents |->
         [j \in DOMAIN top_indices |-> results.documents[top_indices[j]]],
     metadatas |->
         [j \in DOMAIN top_indices |-> results.metadatas[top_indices[j]]],
     embedding_scores |->
         [j \in DOMAIN top_indices |-> results.scores[top_indices[j]]],
     rerank_scores |->
         [j \in DOMAIN top_indices |-> rerank_scores[top_indices[j]]],
     reranked |-> TRUE,
     rerank_method |-> "bge-v2-m3",
     initial_search_count |-> initial_k]

\* the rows of Rows, in one fixed order
RowOrder == <<RowOf("a"), RowOf("b"), RowOf("c"), RowOf("z")>>

\* initial_k and final_k offered: zero up to more than the index holds
MaxOrchK == MaxOrchRows + 1

\* the index files the orchestrator's store is pointed at: between one and
\* MaxOrchRows records of RowOrder, in that order
OrchIndexFiles ==
    { [exists |-> TRUE,
       data |-> WriteParquet(SelectSeq(RowOrder, LAMBDA r : r \in S))] :
         S \in { T \in SUBSET Rows : T # {} /\ Cardinality(T) <= MaxOrchRows } }

\* PolarsVectorStoreWithReranker(parquet_path, use_reranker), the adapter's
\* construction succeeding or raising
InitOrch ==
    /\ \E f \in OrchIndexFiles :
           files = EmptyRegistryDir @@ [BackingFiles EXCEPT !["pathA"] = f]
    /\ index = NewHandle("pathA")
    /\ \E use_reranker \in BOOLEAN, adapter_loads \in BOOLEAN :
           orch = OrchInit(use_reranker, adapter_loads)
    /\ ret = NoRetrieval
    /\ UiIdle
    /\ RegistryIdle

\* query_and_rerank(query_text, initial_k, final_k, normalize): stage 1 is
\* store.query(query_text, n_results=initial_k)
QueryAndRerank(q, initial_k, final_k, normalize) ==
    \E h \in {LazyLoad(index, files)} :
    \E sims \in {Similarities(h.cache, Encode(q))} :
        LET asked == [NoRetrieval EXCEPT
                        !.op = "query_and_rerank", !.query = q,
                        !.k = initial_k, !.final_k = final_k,
                        !.normalize = normalize]
        IN  /\ index' = h
            /\ IF QueryResult(index, files) = "error"
               THEN ret' = [asked EXCEPT !.result = "error"] /\ orch' = orch
               ELSE \E order \in ArgSorts(sims) :
                    \E top \in {TopIndices(order, initial_k)} :
                    \E results \in {QueryOut(h, sims, top)} :
                        IF ~Enabled(orch)
                        THEN /\ ret' = [asked EXCEPT
                                          !.out = FallbackResult(results),
                                          !.sims = sims, !.top = top]
                             /\ orch' = orch
                        ELSE \E scores \in
                                 {Normalized(RerankScores(q, results.documents,
                                                 1, DefaultBatchSize),
                                             normalize)} :
                             \E indices \in RerankIndices(scores) :
                             \E top_indices \in {KeepTopFinal(indices, final_k)} :
                                 /\ ret' = [asked EXCEPT
                                              !.out = RerankedResult(results,
                                                        scores, top_indices,
                                                        initial_k),
                                              !.sims = sims, !.top = top]
                                 /\ orch' = [orch EXCEPT !.invoked = TRUE]
            /\ UNCHANGED <<files, registryVars, uiVars>>

\* get_reranker_stats()
GetRerankerStats ==
    /\ ret' = [NoRetrieval EXCEPT
                 !.op = "get_reranker_stats",
                 !.result = IF orch.reranker = "none" THEN "disabled"
                            ELSE "enabled"]
    /\ UNCHANGED <<files, index, orch, registryVars, uiVars>>

NextOrch ==
    \/ \E q \in Queries, initial_k \in 0..MaxOrchK, final_k \in 0..MaxOrchK,
          normalize \in BOOLEAN :
           QueryAndRerank(q, initial_k, final_k, normalize)
    \/ GetRerankerStats
    \/ Load

\* One orchestrator over one index file; every call is one step.
SpecOrch == InitOrch /\ [][NextOrch]_vars

\* --------------------------------------- BaseIngester._merge_with_existing

\* the records an incoming batch is made of: one with the id of "a" and
\* other content, one with a new id
BatchRows ==
    { Row("a", "ta2", <<0, 1>>, "{\"scene\": 3}"),
      Row("n", "tn", <<0, 1>>, "{\"scene\": 3}") }

\* df["id"].to_list() as a set
Ids(df) == { df[k].id : k \in DOMAIN df }

\* mutant: the incoming records are appended without the duplicate filter
MergeFramesAppendsAll(existing_df, new_df) == existing_df \o new_df

\* duplicates = existing_ids & new_ids; new_df.filter(~is_in(duplicates));
\* pl.concat([existing_df, new_df])
MergeFrames(existing_df, new_df) ==
    LET duplicates == Ids(existing_df) \cap Ids(new_df)
    IN  existing_df \o SelectSeq(new_df, LAMBDA r : r.id \notin duplicates)

\* write_parquet(path) run to completion
SaveParquet(fs, path, df) ==
    WriteAt0(OpenTrunc(fs, path), path, WriteParquet(df))

\* an ingester over a store file that is missing or holds an index
InitMerge ==
    /\ \E f \in IndexFiles \cup {NoFile} :
           files = EmptyRegistryDir @@ [BackingFiles EXCEPT !["pathA"] = f]
    /\ index = NewHandle("pathA")
    /\ orch = NoOrchestrator
    /\ ret = NoRetrieval
    /\ UiIdle
    /\ RegistryIdle

\* _merge_with_existing(new_df, existing_parquet)
Merge(new_df) ==
    \E merged \in
        { IF ~files["pathA"].exists THEN new_df
          ELSE MergeFrames(ReadParquet(files["pathA"].data), new_df) } :
        /\ files' = SaveParquet(files, "pathA", merged)
        /\ ret' = [NoRetrieval EXCEPT !.op = "merge", !.batch = new_df,
                                      !.pre = files["pathA"], !.out = merged]
        /\ UNCHANGED <<index, orch, registryVars, uiVars>>

NextMerge == \E new_df \in SeqsUpTo(BatchRows, MaxBatch) : Merge(new_df)

\* One store file, merged into batch after batch.
SpecMerge == InitMerge /\ [][NextMerge]_vars

\* ------------------------------ _merge_with_existing over unique record ids

\* no id occurs twice in the frame
UniqueIds(df) == \A j, k \in DOMAIN df : df[j].id = df[k].id => j = k

\* a store file that is missing or holds records with unique ids
InitMergeUnique ==
    /\ \E f \in { g \in IndexFiles : UniqueIds(ReadParquet(g.data)) }
                 \cup {NoFile} :
           files = EmptyRegistryDir @@ [BackingFiles EXCEPT !["pathA"] = f]
    /\ index = NewHandle("pathA")
    /\ orch = NoOrchestrator
    /\ ret = NoRetrieval
    /\ UiIdle
    /\ RegistryIdle

\* batches whose ids are unique within the batch
NextMergeUnique ==
    \E new_df \in { b \in SeqsUpTo(BatchRows, MaxBatch) : UniqueIds(b) } :
        Merge(new_df)

\* One store file that starts with unique ids, merged into batch after batch.
SpecMergeUnique == InitMergeUnique /\ [][NextMergeUnique]_vars

\* ----------------------- _merge_with_existing, one file system call a step

\* the store files an ingester is pointed at in the step-level runs
InitMergeSteps ==
    /\ \E f \in OrchIndexFiles \cup {NoFile} :
           files = EmptyRegistryDir @@ [BackingFiles EXCEPT !["pathA"] = f]
    /\ index = NewHandle("pathA")
    /\ orch = NoOrchestrator
    /\ ret = NoRetrieval
    /\ UiIdle
    /\ RegistryIdle

\* Path(existing_parquet).exists(), pl.read_parquet, the duplicate filter and
\* pl.concat: the frame that is going to be written; read_parquet raises on
\* a file that is not parquet
MergeBegin(new_df) ==
    /\ task.merge.pc \in {"idle", "killed"}
    /\ IF files["pathA"].exists /\ ~IsParquet(files["pathA"].data)
       THEN /\ task' = [task EXCEPT !.merge = NoTasks.merge]
            /\ ret' = [NoRetrieval EXCEPT !.op = "merge", !.batch = new_df,
                                          !.pre = files["pathA"],
                                          !.result = "error"]
       ELSE /\ task' = [task EXCEPT !.merge =
                          [pc |-> "computed", batch |-> new_df,
                           pre |-> files["pathA"],
                           merged |-> IF ~files["pathA"].exists THEN new_df
                                      ELSE MergeFrames(
                                               ReadParquet(files["pathA"].data),
                                               new_df),
                           written |-> 0]]
            /\ ret' = [NoRetrieval EXCEPT !.op = "merging", !.batch = new_df,
                                          !.pre = files["pathA"]]
    /\ UNCHANGED <<files, index, orch, registryVars, search_history>>

\* write_parquet(existing_parquet): the file is created or truncated at its
\* own path
MergeOpen ==
    /\ task.merge.pc = "computed"
    /\ files' = OpenTrunc(files, "pathA")
    /\ task' = [task EXCEPT !.merge.pc = "writing"]
    /\ UNCHANGED <<index, orch, ret, registryVars, search_history>>

\* write_parquet: the next piece of the file is written
MergeWrite ==
    /\ task.merge.pc = "writing"
    /\ task.merge.written < Len(WriteParquet(task.merge.merged))
    /\ files' = [files EXCEPT !["pathA"].data =
                     @ \o <<WriteParquet(task.merge.merged)[task.merge.written + 1]>>]
    /\ task' = [task EXCEPT !.merge.written = @ + 1]
    /\ UNCHANGED <<index, orch, ret, registryVars, search_history>>

\* write_parquet returned; `return merged`
MergeReturn ==
    /\ task.merge.pc = "writing"
    /\ task.merge.written = Len(WriteParquet(task.merge.merged))
    /\ task' = [task EXCEPT !.merge = NoTasks.merge]
    /\ ret' = [NoRetrieval EXCEPT !.op = "merge", !.batch = task.merge.batch,
                                  !.pre = task.merge.pre,
                                  !.out = task.merge.merged]
    /\ UNCHANGED <<files, index, orch, registryVars, search_history>>

\* the ingesting process is killed inside _merge_with_existing
MergeKill ==
    /\ task.merge.pc \in {"computed", "writing"}
    /\ task' = [task EXCEPT !.merge.pc = "killed"]
    /\ ret' = [ret EXCEPT !.op = "merge", !.result = "killed"]
    /\ UNCHANGED <<files, index, orch, registryVars, search_history>>

NextMergeSteps ==
    \/ \E new_df \in SeqsUpTo(BatchRows, MaxBatch) : MergeBegin(new_df)
    \/ MergeOpen
    \/ MergeWrite
    \/ MergeReturn
    \/ MergeKill

\* One store file, merged into batch after batch; the ingesting process may
\* be killed between any two file system calls and run again.
SpecMergeSteps == InitMergeSteps /\ [][NextMergeSteps]_vars

\* --------------- PolarsVectorStore: load() and query() in worker threads

\* a handle over an index file, nothing loaded, no thread started
InitLoadQuery ==
    /\ \E f \in OrchIndexFiles :
           files = EmptyRegistryDir @@ [BackingFiles EXCEPT !["pathA"] = f]
    /\ index = NewHandle("pathA")
    /\ orch = NoOrchestrator
    /\ ret = NoRetrieval
    /\ UiIdle
    /\ RegistryIdle

\* load() in its thread: `if self.parquet_path.exists()`
LoadExists ==
    /\ task.load.pc = "idle"
    /\ IF files[index.path].exists
       THEN /\ task' = [task EXCEPT !.load.pc = "exists"]
            /\ UNCHANGED ret
       ELSE /\ ret' = [NoRetrieval EXCEPT !.op = "load", !.result = "False"]
            /\ UNCHANGED task
    /\ UNCHANGED <<files, index, orch, registryVars, search_history>>

\* load() in its thread: self.df = pl.read_parquet(self.parquet_path)
LoadRead ==
    /\ task.load.pc = "exists"
    /\ IF IsParquet(files[index.path].data)
       THEN /\ index' = ReadInto(index, files)
            /\ task' = [task EXCEPT !.load.pc = "df"]
            /\ UNCHANGED ret
       ELSE /\ task' = [task EXCEPT !.load.pc = "idle"]
            /\ ret' = [NoRetrieval EXCEPT !.op = "load", !.result = "error"]
            /\ UNCHANGED index
    /\ UNCHANGED <<files, orch, registryVars, search_history>>

\* load() in its thread: self.embeddings_cache = np.array(...); return True
LoadCache ==
    /\ task.load.pc = "df"
    /\ IF Rectangular(index.df)
       THEN /\ index' = CacheInto(index)
            /\ ret' = [NoRetrieval EXCEPT !.op = "load", !.result = "True"]
       ELSE /\ ret' = [NoRetrieval EXCEPT !.op = "load", !.result = "error"]
            /\ UNCHANGED index
    /\ task' = [task EXCEPT !.load.pc = "idle"]
    /\ UNCHANGED <<files, orch, registryVars, search_history>>

\* query() in its thread: `if self.df is None: self.load()`, then the query
\* is encoded
QueryBegin(q, k) ==
    /\ task.query.pc = "idle"
    /\ index' = LazyLoad(index, files)
    /\ IF ~index.loaded /\ LoadResult(index, files) = "error"
       THEN /\ ret' = [NoRetrieval EXCEPT !.op = "query", !.query = q, !.k = k,
                                          !.result = "error"]
            /\ UNCHANGED task
       ELSE /\ task' = [task EXCEPT !.query =
                          [NoTasks.query EXCEPT !.pc = "encoded", !.q = q,
                                                !.k = k]]
            /\ UNCHANGED ret
    /\ UNCHANGED <<files, orch, registryVars, search_history>>

\* query() in its thread: norms, normalized, similarities and top_indices
\* out of self.embeddings_cache; np.linalg.norm raises when it is None or
\* has no rows
QueryScore ==
    /\ task.query.pc = "encoded"
    /\ IF index.cache = <<>>
       THEN /\ task' = [task EXCEPT !.query = NoTasks.query]
            /\ ret' = [NoRetrieval EXCEPT !.op = "query",
                                          !.query = task.query.q,
                                          !.k = task.query.k,
                                          !.result = "error"]
       ELSE /\ \E sims \in {Similarities(index.cache, Encode(task.query.q))} :
               \E order \in ArgSorts(sims) :
                   task' = [task EXCEPT !.query.pc = "scored",
                                        !.query.sims = sims,
                                        !.query.top =
                                            TopIndices(order, task.query.k)]
            /\ UNCHANGED ret
    /\ UNCHANGED <<files, index, orch, registryVars, search_history>>

\* query() in its thread: results_df = self.df[top_indices] and the dict
\* returned; an index beyond the last row of self.df raises
QueryReturn ==
    /\ task.query.pc = "scored"
    /\ LET asked == [NoRetrieval EXCEPT !.op = "query", !.query = task.query.q,
                                        !.k = task.query.k]
           top == task.query.top
       IN  IF \E j \in DOMAIN top : top[j] > Len(index.df)
           THEN ret' = [asked EXCEPT !.result = "error"]
           ELSE ret' = [asked EXCEPT !.out = QueryOut(index, task.query.sims, top),
                                     !.sims = task.query.sims,
                                     !.top = top]
    /\ task' = [task EXCEPT !.query = NoTasks.query]
    /\ UNCHANGED <<files, index, orch, registryVars, search_history>>

NextLoadQuery ==
    \/ LoadExists
    \/ LoadRead
    \/ LoadCache
    \/ \E q \in Queries, k \in 1..MaxOrchK : QueryBegin(q, k)
    \/ QueryScore
    \/ QueryReturn
    \/ \E r \in BatchRows : Merge(<<r>>)

\* One handle, one thread in load() and one in query(), while an ingester
\* merges batches into the store file.
SpecLoadQuery == InitLoadQuery /\ [][NextLoadQuery]_vars

\* ------------------------------------------------------------ async_search

\* the query strings typed into the search box
SearchInputs == {"", "ab", "Admiral"}

\* len(query)
QueryLen(q) == CASE q = "" -> 0 [] q = "ab" -> 2 [] q = "Admiral" -> 7

\* mutant: the deadline stops the worker thread
OnTimeoutCancels(worker) == "cancelled"

\* asyncio.wait_for gives up on the awaited future; the thread the executor
\* runs store.query in is not interrupted
OnTimeout(worker) == worker

\* a search screen over an index file, one without records included;
\* nothing loaded, no search dispatched
InitSearch ==
    /\ \E f \in OrchIndexFiles
                 \cup {[exists |-> TRUE, data |-> WriteParquet(<<>>)]} :
           files = EmptyRegistryDir @@ [BackingFiles EXCEPT !["pathA"] = f]
    /\ index = NewHandle("pathA")
    /\ orch = NoOrchestrator
    /\ ret = NoRetrieval
    /\ UiIdle
    /\ RegistryIdle

\* async_search(store, query, n_results, timeout) up to its await: the two
\* validations, then store.query is handed to the executor
AsyncSearch(q, k) ==
    /\ task.search.pc # "awaiting"
    /\ task.search.worker # "running"
    /\ LET asked == [NoTasks.search EXCEPT !.q = q, !.k = k]
       IN  task' = [task EXCEPT !.search =
               IF q = "" \/ QueryLen(q) < 3
               THEN [asked EXCEPT !.pc = "raised", !.raised = "SearchError",
                                  !.err = "short"]
               ELSE IF ~index.loaded
               THEN [asked EXCEPT !.pc = "raised", !.raised = "SearchError",
                                  !.err = "not loaded"]
               ELSE [asked EXCEPT !.pc = "awaiting", !.worker = "running"]]
    /\ UNCHANGED <<files, index, orch, ret, registryVars, search_history>>

\* the worker thread: store.query(query, n_results) runs to its end
WorkerQuery ==
    /\ task.search.worker = "running"
    /\ \E h \in {LazyLoad(index, files)} :
       \E sims \in {Similarities(h.cache, Encode(task.search.q))} :
           LET asked == [NoRetrieval EXCEPT !.op = "query",
                                           !.query = task.search.q,
                                           !.k = task.search.k]
           IN  /\ index' = h
               /\ IF QueryResult(index, files) = "error"
                  THEN /\ ret' = [asked EXCEPT !.result = "error"]
                       /\ task' = [task EXCEPT !.search.worker = "failed"]
                  ELSE \E order \in ArgSorts(sims) :
                       \E top \in {TopIndices(order, task.search.k)} :
                           /\ ret' = [asked EXCEPT
                                         !.out = QueryOut(h, sims, top),
                                         !.sims = sims, !.top = top]
                           /\ task' = [task EXCEPT
                                          !.search.worker = "done",
                                          !.search.out =
                                              QueryOut(h, sims, top)]
    /\ UNCHANGED <<files, orch, registryVars, search_history>>

\* the await ends with the worker's outcome: `return results`, or the
\* exception of store.query (an AttributeError as SearchError)
Deliver ==
    /\ task.search.pc = "awaiting"
    /\ task.search.worker \in {"done", "failed"}
    /\ task' = [task EXCEPT !.search =
           IF task.search.worker = "done"
           THEN [@ EXCEPT !.pc = "returned"]
           ELSE [@ EXCEPT !.pc = "raised", !.raised = "Exception",
                          !.err = "query"]]
    /\ UNCHANGED <<files, index, orch, ret, registryVars, search_history>>

\* the deadline passes before the worker is through: asyncio.TimeoutError,
\* raised to the caller as SearchError
Timeout ==
    /\ task.search.pc = "awaiting"
    /\ task.search.worker = "running"
    /\ task' = [task EXCEPT !.search.pc = "raised",
                            !.search.raised = "SearchError",
                            !.search.err = "timeout",
                            !.search.worker = OnTimeout(@)]
    /\ UNCHANGED <<files, index, orch, ret, registryVars, search_history>>

NextSearch ==
    \/ Load
    \/ \E q \in SearchInputs, k \in 1..MaxOrchK : AsyncSearch(q, k)
    \/ WorkerQuery
    \/ Deliver
    \/ Timeout

\* One search screen: the event loop awaits one search at a time, the
\* executor's thread runs store.query.
SpecSearch == InitSearch /\ [][NextSearch]_vars

\* ------------------------------------------------------ BGERerankerM3.rerank

\* the documents rerank() is given
Documents == {"ta", "tb", "tc", "tz"}

\* an adapter that loaded, about to be called with a query, a list of
\* documents, a batch size and the normalize flag
InitRerank ==
    /\ files = EmptyRegistryDir @@ BackingFiles
    /\ index = NewHandle("pathA")
    /\ orch = OrchInit(TRUE, TRUE)
    /\ \E q \in Queries, documents \in SeqsUpTo(Documents, MaxDocs),
          batch_size \in 1..MaxBatchSize, normalize \in BOOLEAN :
           ret = [NoRetrieval EXCEPT !.op = "rerank", !.result = "called",
                                     !.query = q, !.batch = documents,
                                     !.k = batch_size, !.normalize = normalize]
    /\ UiIdle
    /\ RegistryIdle

\* rerank(query, documents, batch_size, normalize)
Rerank ==
    /\ ret.op = "rerank"
    /\ ret.result = "called"
    /\ \E scores \in {Normalized(RerankScores(ret.query, ret.batch, 1, ret.k),
                                  ret.normalize)} :
       \E indices \in RerankIndices(scores) :
           ret' = [ret EXCEPT !.result = "ok",
                              !.out = [scores |-> scores, indices |-> indices]]
    /\ UNCHANGED <<files, index, orch, registryVars, uiVars>>

NextRerank == Rerank

\* One reranker adapter, called once.
SpecRerank == InitRerank /\ [][NextRerank]_vars

\* ------------------------------------- PolarsVectorStore over corrupt data

\* a record whose embedding has another length than the others'
RaggedRow == Row("r", "tr", <<1>>, "{\"scene\": 1}")

\* parquet files whose rows have embeddings of different lengths
CorruptIndexFiles ==
    { [exists |-> TRUE, data |-> WriteParquet(df)] :
        df \in { <<x, RaggedRow>> : x \in Rows }
               \cup { <<RaggedRow, x>> : x \in Rows } }

\* PolarsVectorStore(path) over a file that is missing, is not parquet, is
\* an index file or holds corrupt rows
InitLoad ==
    /\ \E f \in OrchIndexFiles \cup CorruptIndexFiles
                 \cup {NoFile, BackingFiles["pathB"]} :
           files = EmptyRegistryDir @@ [BackingFiles EXCEPT !["pathA"] = f]
    /\ index = NewHandle("pathA")
    /\ orch = NoOrchestrator
    /\ ret = NoRetrieval
    /\ UiIdle
    /\ RegistryIdle

NextLoad ==
    \/ Load
    \/ \E q \in Queries, k \in 0..MaxOrchK : Query(q, k)

\* One PolarsVectorStore over one file, corrupt files included.
SpecLoad == InitLoad /\ [][NextLoad]_vars

\* ------------------------------------------------------------ SearchHistory

\* the queries add_query is given; "" is the empty query
HistoryQueries == {"", "first", "second", "third", "fourth"}

\* None, as navigate_up and navigate_down return it
NoneQuery == "<None>"

\* `query not in self.history`
InHistory(history, query) == \E k \in DOMAIN history : history[k] = query

\* add_query(query): the widget after it
add_query(sh, query) ==
    IF query # "" /\ ~InHistory(sh.history, query)
    THEN [sh EXCEPT !.history = Take(<<query>> \o @, sh.max_items),
                    !.current_index = -1]
    ELSE sh

\* clear_history(): the widget after it
clear_history(sh) == [sh EXCEPT !.history = <<>>, !.current_index = -1]

\* navigate_up(): the widget after it
navigate_up(sh) ==
    IF sh.history = <<>> THEN sh
    ELSE IF sh.current_index < Len(sh.history) - 1
         THEN [sh EXCEPT !.current_index = @ + 1]
         ELSE sh

\* mutant: navigate_down stops at the most recent entry
navigate_down_stops(sh) ==
    IF sh.history = <<>> THEN sh
    ELSE IF sh.current_index > 0
         THEN [sh EXCEPT !.current_index = @ - 1]
         ELSE sh

\* navigate_down(): the widget after it
navigate_down(sh) ==
    IF sh.history = <<>> THEN sh
    ELSE IF sh.current_index > 0
         THEN [sh EXCEPT !.current_index = @ - 1]
         ELSE IF sh.current_index = 0
              THEN [sh EXCEPT !.current_index = -1]
              ELSE sh

\* navigate_up() returns self.history[self.current_index], a Python list
\* index (a negative one counts from the end); None on an empty history
UpReturns(sh) ==
    IF sh.history = <<>> THEN NoneQuery
    ELSE IF sh.current_index >= 0 THEN sh.history[sh.current_index + 1]
         ELSE sh.history[Len(sh.history) + 1 + sh.current_index]

\* navigate_down() returns self.history[self.current_index] if
\* current_index >= 0 else None
DownReturns(sh) ==
    IF sh.history = <<>> \/ sh.current_index < 0 THEN NoneQuery
    ELSE sh.history[sh.current_index + 1]

\* SearchHistory(max_items)
InitHistory ==
    /\ files = EmptyRegistryDir @@ BackingFiles
    /\ index = NewHandle("pathA")
    /\ orch = NoOrchestrator
    /\ ret = NoRetrieval
    /\ task = NoTasks
    /\ \E max_items \in 1..MaxItems :
           search_history = NewSearchHistory(max_items)
    /\ RegistryIdle

\* the call made on the widget, the widget before it and what it returned;
\* k and final_k count the navigate_up calls made in a row from index -1 and
\* the navigate_down calls made in a row after them
Called(op, query, out, ups, downs) ==
    ret' = [NoRetrieval EXCEPT !.op = op, !.query = query, !.out = out,
                               !.pre = search_history, !.k = ups,
                               !.final_k = downs]

AddQuery(query) ==
    /\ search_history' = add_query(search_history, query)
    /\ Called("add_query", query, NoneQuery, 0, 0)
    /\ UNCHANGED <<files, index, orch, task, registryVars>>

ClearHistory ==
    /\ search_history' = clear_history(search_history)
    /\ Called("clear_history", "", NoneQuery, 0, 0)
    /\ UNCHANGED <<files, index, orch, task, registryVars>>

NavigateUp ==
    /\ search_history' = navigate_up(search_history)
    /\ Called("navigate_up", "", UpReturns(search_history'),
              IF search_history.current_index = -1 THEN 1
              ELSE IF ret.op = "navigate_up" /\ ret.k \in 1..(MaxNav - 1)
                   THEN ret.k + 1
                   ELSE 0,
              0)
    /\ UNCHANGED <<files, index, orch, task, registryVars>>

NavigateDown ==
    /\ search_history' = navigate_down(search_history)
    /\ Called("navigate_down", "", DownReturns(search_history'),
              IF ret.op \in {"navigate_up", "navigate_down"}
                 /\ ret.final_k < ret.k THEN ret.k ELSE 0,
              IF ret.op \in {"navigate_up", "navigate_down"}
                 /\ ret.final_k < ret.k THEN ret.final_k + 1 ELSE 0)
    /\ UNCHANGED <<files, index, orch, task, registryVars>>

NextHistory ==
    \/ \E query \in HistoryQueries : AddQuery(query)
    \/ ClearHistory
    \/ NavigateUp
    \/ NavigateDown

\* One SearchHistory widget; every call is one step.
SpecHistory == InitHistory /\ [][NextHistory]_vars

\* ------------------------------------------------------------ apply_filters

\* a filter argument left at None
NoFilter == "<None>"

\* `if location:`, `if date_start`: the argument is neither None nor ""
Given(f) == f # NoFilter /\ f # ""

\* the metadata of the results: location, date_iso and characters_present
\* as metadata.get reads them, "" or "[]" standing for a missing key
SampleMetadatas ==
    { [location |-> "Command Bridge", date_iso |-> "2024-01-15",
       characters_present |-> "[\"Admiral\", \"Ensign\"]"],
      [location |-> "Throne Room", date_iso |-> "2024-01-20",
       characters_present |-> "[\"King\"]"],
      [location |-> "Royal Chamber", date_iso |-> "2024-02-01",
       characters_present |-> "[\"Admiral\", \"King\"]"],
      [location |-> "", date_iso |-> "", characters_present |-> "not json"] }

\* the values the filters are called with
LocationFilters == {NoFilter, "Room", "chamber"}
DateFilters == {NoFilter, "2024-01-20", "invalid-date", "13/45/2024"}
CharacterFilters == {NoFilter, "admiral"}

\* the strings that are ISO dates (YYYY-MM-DD)
IsIsoDate(d) == d \in {"2024-01-15", "2024-01-20", "2024-02-01"}

\* the place of a string in Python's order of str (by code point, a prefix
\* first)
StrRank(d) ==
    CASE d = "" -> 0
      [] d = "13/45/2024" -> 1
      [] d = "2024-01-15" -> 2
      [] d = "2024-01-20" -> 3
      [] d = "2024-02-01" -> 4
      [] d = "invalid-date" -> 5

\* a < b on two str
StrLt(a, b) == StrRank(a) < StrRank(b)

\* str.lower()
Lower(t) ==
    CASE t = "Room" -> "room"
      [] t = "Command Bridge" -> "command bridge"
      [] t = "Throne Room" -> "throne room"
      [] t = "Royal Chamber" -> "royal chamber"
      [] t = "Admiral" -> "admiral"
      [] t = "Ensign" -> "ensign"
      [] t = "King" -> "king"
      [] OTHER -> t

\* `a in b` on two lower-case str
Contains(a, b) ==
    \/ a = b
    \/ a = ""
    \/ a = "room" /\ b = "throne room"
    \/ a = "chamber" /\ b = "royal chamber"

\* json.loads(chars_str) returns a list (no JSONDecodeError)
IsJsonList(chars_str) ==
    chars_str \in {"[\"Admiral\", \"Ensign\"]", "[\"King\"]",
                   "[\"Admiral\", \"King\"]", "[]"}

\* json.loads(chars_str)
CharsOf(chars_str) ==
    CASE chars_str = "[\"Admiral\", \"Ensign\"]" -> <<"Admiral", "Ensign">>
      [] chars_str = "[\"King\"]" -> <<"King">>
      [] chars_str = "[\"Admiral\", \"King\"]" -> <<"Admiral", "King">>
      [] chars_str = "[]" -> <<>>

\* the location filter lets the metadata through
LocationPasses(location, metadata) ==
    Given(location) => Contains(Lower(location), Lower(metadata.location))

\* the date filter lets the metadata through: date_iso is compared with
\* the bounds as str
DatePasses(date_start, date_end, metadata) ==
    Given(date_start) \/ Given(date_end) =>
        /\ ~(Given(date_start) /\ StrLt(metadata.date_iso, date_start))
        /\ ~(Given(date_end) /\ StrLt(date_end, metadata.date_iso))

\* the character filter lets the metadata through
CharacterPasses(character, metadata) ==
    Given(character) =>
        /\ IsJsonList(metadata.characters_present)
        /\ \E k \in DOMAIN CharsOf(metadata.characters_present) :
               Contains(Lower(character),
                        Lower(CharsOf(metadata.characters_present)[k]))

\* apply_filters(results, location, date_start, date_end, character):
\* matching_indices, then the four lists rebuilt over sorted(matching_indices)
apply_filters(results, location, date_start, date_end, character) ==
    LET matching_indices ==
            { i \in DOMAIN results.metadatas :
                /\ LocationPasses(location, results.metadatas[i])
                /\ DatePasses(date_start, date_end, results.metadatas[i])
                /\ CharacterPasses(character, results.metadatas[i]) }
        sorted == SelectSeq([i \in DOMAIN results.metadatas |-> i],
                            LAMBDA i : i \in matching_indices)
    IN  [ids |-> [j \in DOMAIN sorted |-> results.ids[sorted[j]]],
         documents |-> [j \in DOMAIN sorted |-> results.documents[sorted[j]]],
         scores |-> [j \in DOMAIN sorted |-> results.scores[sorted[j]]],
         metadatas |-> [j \in DOMAIN sorted |-> results.metadatas[sorted[j]]]]

\* search results over the metadatas: ids, documents and scores number the
\* results in their order
ResultsOver(metadatas) ==
    [ids |-> [i \in DOMAIN metadatas |-> i],
     documents |-> [i \in DOMAIN metadatas |-> i],
     scores |-> [i \in DOMAIN metadatas |-> F(One - i)],
     metadatas |-> metadatas]

\* a result dict and four filter arguments, apply_filters about to be called
InitFilters ==
    /\ files = EmptyRegistryDir @@ BackingFiles
    /\ index = NewHandle("pathA")
    /\ orch = NoOrchestrator
    /\ \E metadatas \in SeqsUpTo(SampleMetadatas, MaxResults),
          location \in LocationFilters, date_start \in DateFilters,
          date_end \in DateFilters, character \in CharacterFilters :
           ret = [NoRetrieval EXCEPT
                     !.op = "apply_filters", !.result = "called",
                     !.batch = ResultsOver(metadatas),
                     !.pre = [location |-> location, date_start |-> date_start,
                              date_end |-> date_end, character |-> character]]
    /\ UiIdle
    /\ RegistryIdle

\* apply_filters(...)
ApplyFilters ==
    /\ ret.op = "apply_filters"
    /\ ret.result = "called"
    /\ ret' = [ret EXCEPT !.result = "ok",
                          !.out = apply_filters(ret.batch, ret.pre.location,
                                                ret.pre.date_start,
                                                ret.pre.date_end,
                                                ret.pre.character)]
    /\ UNCHANGED <<files, index, orch, registryVars, uiVars>>

NextFilters == ApplyFilters

\* One call of apply_filters.
SpecFilters == InitFilters /\ [][NextFilters]_vars

\* ------------------------------------------------------------- claims, Spec

\* the instance of the one-instance specifications
R == CHOOSE i \in Instances : \A j \in Instances : i <= j

\* C1: whenever rename(old, new) succeeds from a state whose explicit default
\* pointer names the registered store old, get_default() right after the call
\* returns new.
C1_RenameMovesDefault ==
    (/\ call[R].op = "rename"
     /\ call[R].result = "ok"
     /\ PointerNames(call[R].preStores, call[R].preFiles, call[R].name))
    => get_default(stores[R], files) = call[R].arg

\* C2: once delete(n) has removed the store the explicit default pointer
\* named, and as long as only register and delete calls follow, the pointer
\* file names no store and get_default() is the lexicographically first
\* registered name, or none when the registry is empty.
C2_DeleteClearsDefault ==
    defaultDeleted =>
        /\ (~files["def"].exists \/ PointerText(files) = "")
        /\ get_default(stores[R], files) =
               (IF stores[R] = <<>> THEN NoneName
                ELSE SortedFirst(Keys(stores[R])))

C4_DuplicateRegisterNoChange ==
    (call[R].op = "register" /\ call[R].name \in Keys(call[R].preStores)) =>
        /\ call[R].result = "ValueError: already exists"
        /\ stores[R] = call[R].preStores
        /\ files = call[R].preFiles
        /\ LoadRegistry(files) = LoadRegistry(call[R].preFiles)
        /\ Lookup(stores[R], call[R].name).path
              = Lookup(call[R].preStores, call[R].name).path

\* C4 witness: a refused second registration that offered another path
C4_Witness ==
    /\ call[R].op = "register"
    /\ call[R].result = "ValueError: already exists"
    /\ call[R].arg = "pathB"
    /\ Lookup(stores[R], call[R].name).path = Path("pathA")
    /\ files["def"].exists

\* C5: after a successful register(n, p) get(n) returns a store whose path is
\* p, and after a successful delete(n) get(n) raises KeyError, for every name
\* register accepts.
C5_RegisterGetDelete ==
    /\ (call[R].op = "register" /\ call[R].result = "ok")
          => get(stores[R], files, call[R].name) = call[R].arg
    /\ (call[R].op = "delete" /\ call[R].result = "ok")
          => get(stores[R], files, call[R].name) = "KeyError"

\* C10: whatever successful calls one instance has made, a new instance
\* constructed over the directory lists the same entries and resolves the
\* same default.
C10_ReloadRoundTrip ==
    LET fresh == LoadRegistry(files)
    IN  /\ list_stores(fresh) = list_stores(stores[R])
        /\ get_default(fresh, files) = get_default(stores[R], files)

\* C10 witness: after a rename, two entries of different metadata and a live
\* default pointer
C10_Witness ==
    /\ call[R].op = "rename" /\ call[R].result = "ok"
    /\ Len(stores[R]) = 2
    /\ stores[R][1].meta.path # stores[R][2].meta.path
    /\ files["def"].exists
    /\ PointerText(files) \in Keys(stores[R])

\* C11: a successful delete(name) removes the catalog entry name and nothing
\* else: every other entry keeps its name, path, created_at, source_type,
\* record_count and description, in memory and in registry.json, and the
\* backing file at the deleted entry's path still exists with its content.
C11_DeleteUnregistersOnly ==
    (call[R].op = "delete" /\ call[R].result = "ok") =>
        LET pre == call[R].preStores
            p == PathStr(Lookup(pre, call[R].name).path)
        IN  /\ Keys(stores[R]) = Keys(pre) \ {call[R].name}
            /\ Len(stores[R]) = Len(pre) - 1
            /\ \A m \in Keys(stores[R]) :
                   Lookup(stores[R], m) = Lookup(pre, m)
            /\ LoadRegistry(files) = stores[R]
            /\ files[p].exists
            /\ files[p] = call[R].preFiles[p]

\* C11 witness: the first-registered of two entries was deleted; the entry
\* that stays has another backing file
C11_Witness ==
    /\ call[R].op = "delete" /\ call[R].result = "ok"
    /\ Len(call[R].preStores) = 2
    /\ call[R].preStores[1].key = call[R].name
    /\ Len(stores[R]) = 1
    /\ stores[R][1].meta.path # call[R].preStores[1].meta.path

\* C13: list() holds exactly the registered stores, each once, in strictly
\* ascending order of name, whatever order the dict holds them in after
\* register, rename, delete and reload.
C13_ListSortedByName ==
    LET l == list_stores(stores[R])
    IN  /\ Len(l) = Len(stores[R])
        /\ { l[k] : k \in DOMAIN l }
              = { stores[R][k].meta : k \in DOMAIN stores[R] }
        /\ { l[k].name : k \in DOMAIN l } = Keys(stores[R])
        /\ \A j \in DOMAIN l, k \in DOMAIN l :
               j < k => NameRank(l[j].name) < NameRank(l[k].name)

\* C13 witness: after a rename the dict holds two stores in descending order
\* of name
C13_Witness ==
    /\ call[R].op = "rename" /\ call[R].result = "ok"
    /\ Len(stores[R]) = 2
    /\ NameRank(stores[R][1].key) > NameRank(stores[R][2].key)
    /\ list_stores(stores[R])[1].name = stores[R][2].key

\* --------------------------------------------------------- claims, SpecFound

\* registry.json is there and json.loads or the entry conversion fails on it
Malformed(fs) == fs["reg"].exists /\ ~WellFormed(fs["reg"].data)

\* C12: a Registry constructed over a malformed registry.json starts empty:
\* list() is empty and get_default() is none.  A register() call made while
\* the file is still malformed fails only for its own arguments, and when it
\* succeeds the catalog holds the new store and registry.json parses again.
C12_MalformedCatalogStartsEmpty ==
    /\ (call[R].op = "init" /\ Malformed(call[R].preFiles)) =>
           /\ call[R].result = "ok"
           /\ stores[R] = <<>>
           /\ list_stores(stores[R]) = <<>>
           /\ get_default(stores[R], files) = NoneName
    /\ (call[R].op = "register" /\ Malformed(call[R].preFiles)) =>
           /\ call[R].preStores = <<>>
           /\ call[R].result \in {"ok", "FileNotFoundError: parquet",
                                   "ValueError: could not read"}
           /\ call[R].result = "ok" =>
                  /\ Keys(stores[R]) = {call[R].name}
                  /\ ~Malformed(files)
                  /\ LoadRegistry(files) = stores[R]

\* C12 witness: a store was registered by an instance constructed over a
\* catalog cut off after its entry, with a pointer file naming that entry
C12_Witness ==
    /\ call[R].op = "register" /\ call[R].result = "ok"
    /\ Malformed(call[R].preFiles)
    /\ \E k \in DOMAIN call[R].preFiles["reg"].data :
           call[R].preFiles["reg"].data[k].tok = "entry"
    /\ call[R].preFiles["def"].exists
    /\ Keys(stores[R]) = {call[R].name}

\* ------------------------------------------- claims, SpecCrash and SpecConc

Mutating == {"register", "rename", "delete"}

\* C6: while register, rename or delete is inside its persistence sequence,
\* and after the process was killed there, registry.json is either the file
\* from before the call or the complete serialization of the changed catalog.
C6_CatalogCrashAtomic ==
    (call[R].op \in Mutating /\ pc[R] # "idle") =>
        \/ files["reg"] = call[R].preFiles["reg"]
        \/ files["reg"] = [exists |-> TRUE,
                           data |-> Serialize(call[R].postStores)]

\* C6 witness: killed between opening and writing the temporary file of a
\* rename, with an earlier catalog on disk
C6_Witness ==
    /\ pc[R] = "crashed"
    /\ call[R].op = "rename"
    /\ files["tmp"].exists /\ files["tmp"].data = <<>>
    /\ files["reg"].exists
    /\ files["reg"] = call[R].preFiles["reg"]
    /\ files["reg"].data # Serialize(call[R].postStores)

\* C7: when a call is killed at any step, default.txt holds its complete
\* previous value or the complete new value: the name set_default or rename
\* writes, or no file after a delete.
C7_PointerCrashAtomic ==
    pc[R] = "crashed" =>
        \/ files["def"] = call[R].preFiles["def"]
        \/ /\ call[R].op \in {"set_default", "rename"}
           /\ files["def"] =
                 [exists |-> TRUE,
                  data |-> <<IF call[R].op = "rename" THEN call[R].arg
                             ELSE call[R].name>>]
        \/ call[R].op = "delete" /\ files["def"] = NoFile

\* C8: with two instances interleaving their calls, registry.json always
\* parses as a complete catalog and no call fails at the rename of the
\* temporary file.
C8_ConcurrentSavesSafe ==
    /\ files["reg"].exists => WellFormed(files["reg"].data)
    /\ \A i \in Instances : call[i].result # "FileNotFoundError: registry.tmp"

\* C9: when instance b has registered a store and the next call, by the
\* other instance a, is a successful mutating call that does not itself
\* remove that store, the catalog on disk still holds b's store.
C9_MutationReadsDisk ==
    \A a \in Instances, b \in Instances :
        (/\ a # b
         /\ call[b].op = "register" /\ call[b].result = "ok"
         /\ call[a].op \in Mutating /\ call[a].result = "ok"
         /\ call[a].seq = call[b].seq + 1
         /\ ~(call[a].op \in {"delete", "rename"}
              /\ call[a].name = call[b].name))
        => call[b].name \in Keys(LoadRegistry(files))

\* --------------------------------------------------------- claims, SpecIndex

\* the last call was a query() that returned
Queried == ret.op = "query" /\ ret.result = "ok"

\* rows of the index the last query() did not return
NotReturned == { i \in DOMAIN index.df : \A j \in DOMAIN ret.top : ret.top[j] # i }

\* C17: a query() on a loaded non-empty index returns min(k, |I|) results;
\* no record left out has a higher similarity than a record returned; the
\* scores returned are non-increasing by rank.
C17_QueryTopK ==
    Queried =>
        /\ Len(ret.out.ids) = Min(ret.k, Len(index.df))
        /\ Len(ret.out.scores) = Len(ret.out.ids)
        /\ \A j \in DOMAIN ret.top :
               /\ ret.out.ids[j] = index.df[ret.top[j]].id
               /\ \A i \in NotReturned : FLe(ret.sims[i], ret.out.scores[j])
        /\ \A j \in DOMAIN ret.out.scores, l \in DOMAIN ret.out.scores :
               j < l => FLe(ret.out.scores[l], ret.out.scores[j])

\* C18: of two records with equal similarity query() ranks the one with the
\* lower row index first, and returns it rather than the other when only one
\* of them fits under the cut-off.
C18_TiesByInsertionOrder ==
    Queried =>
        /\ \A j \in DOMAIN ret.top, l \in DOMAIN ret.top :
               (j < l /\ ret.sims[ret.top[j]] = ret.sims[ret.top[l]])
                   => ret.top[j] < ret.top[l]
        /\ \A j \in DOMAIN ret.top, i \in NotReturned :
               ret.sims[i] = ret.sims[ret.top[j]] => ret.top[j] < i

\* C19: a record whose embedding has zero norm is returned with the score 0,
\* not with not-a-number, and no record of a lower score ranks before it.
C19_ZeroNormScoresZero ==
    Queried =>
        \A j \in DOMAIN ret.top :
            Norm(index.df[ret.top[j]].embedding) = ToFloat(0) =>
                /\ ret.out.scores[j] = ToFloat(0)
                /\ \A l \in DOMAIN ret.top :
                       l < j => FLe(ret.out.scores[j], ret.out.scores[l])

\* ---------------------------------------------------------- claims, SpecOrch

\* the last call was a query_and_rerank() that returned
Retrieved == ret.op = "query_and_rerank" /\ ret.result = "ok"

C15_DisabledReturnsStageOne ==
    (Retrieved /\ ~Enabled(orch)) =>
        \E order \in ArgSorts(Similarities(index.cache, Encode(ret.query))) :
            LET direct == QueryOut(index,
                                   Similarities(index.cache, Encode(ret.query)),
                                   TopIndices(order, ret.k))
            IN  /\ ret.out.ids = direct.ids
                /\ ret.out.documents = direct.documents
                /\ ret.out.metadatas = direct.metadatas
                /\ ret.out.scores = direct.scores

\* C15 witness: Disabled, final_k = 0 and initial_k above the index size; two
\* candidates of different scores came back
C15_Witness ==
    /\ Retrieved /\ ~Enabled(orch)
    /\ ret.final_k = 0
    /\ ret.k > Len(index.df)
    /\ Len(ret.out.ids) = 2
    /\ ret.out.scores[1] # ret.out.scores[2]

\* the rerank score of the candidate at stage-1 rank c of the last call
CandidateScore(c) ==
    LET logit == Logit(ret.query, index.df[ret.top[c]].text)
    IN  IF ret.normalize THEN Sigmoid(logit) ELSE logit

\* C16: Enabled, query_and_rerank() returns min(final_k, |C|) items; rank by
\* rank their id, document, metadata, embedding score and rerank score are
\* those of one candidate of C, no candidate twice; no candidate left out has
\* a higher rerank score than one returned; rerank scores are non-increasing.
C16_EnabledReturnsTopReranked ==
    (Retrieved /\ Enabled(orch)) =>
        LET n == Len(ret.top)
            m == Len(ret.out.ids)
        IN  /\ ret.out.reranked /\ ret.out.rerank_method = "bge-v2-m3"
            /\ m = Min(ret.final_k, n)
            /\ Len(ret.out.documents) = m /\ Len(ret.out.metadatas) = m
            /\ Len(ret.out.embedding_scores) = m
            /\ Len(ret.out.rerank_scores) = m
            /\ \E p \in [1..m -> 1..n] :
                 /\ \A j, l \in 1..m : j # l => p[j] # p[l]
                 /\ \A j \in 1..m :
                      LET row == index.df[ret.top[p[j]]]
                      IN  /\ ret.out.ids[j] = row.id
                          /\ ret.out.documents[j] = row.text
                          /\ ret.out.metadatas[j] = JsonLoads(row.metadata)
                          /\ ret.out.embedding_scores[j] =
                                 FSub(ToFloat(1),
                                      FSub(ToFloat(1), ret.sims[ret.top[p[j]]]))
                          /\ ret.out.rerank_scores[j] = CandidateScore(p[j])
                 /\ \A c \in 1..n, j \in 1..m :
                      (\A l \in 1..m : p[l] # c)
                          => FLe(CandidateScore(c), ret.out.rerank_scores[j])
            /\ \A j, l \in 1..m :
                 j < l => FLe(ret.out.rerank_scores[l], ret.out.rerank_scores[j])

\* C16 witness: Enabled, two candidates and final_k = 1; the one returned is
\* the second of stage 1
C16_Witness ==
    /\ Retrieved /\ Enabled(orch)
    /\ Len(ret.top) = 2
    /\ ret.final_k = 1
    /\ ret.normalize
    /\ Len(ret.out.ids) = 1
    /\ ret.out.ids[1] = index.df[ret.top[2]].id
    /\ FLe(CandidateScore(1), CandidateScore(2))
    /\ CandidateScore(1) # CandidateScore(2)

\* --------------------------------------------------------- claims, SpecMerge

\* C20: after a merge the collection, as returned and as read back from the
\* file, is the existing records in their order followed by the incoming
\* records whose id the existing collection does not hold, in their order; its
\* ids are those of both; a record with an existing id is the existing one.
C20_MergeKeepsExisting ==
    ret.op = "merge" =>
        LET existing == IF ret.pre.exists THEN ReadParquet(ret.pre.data)
                        ELSE <<>>
            reloaded == ReadParquet(files["pathA"].data)
            fresh == SelectSeq(ret.batch,
                               LAMBDA r : \A k \in DOMAIN existing :
                                              existing[k].id # r.id)
        IN  /\ ret.out = existing \o fresh
            /\ reloaded = ret.out
            /\ SubSeq(reloaded, 1, Len(existing)) = existing
            /\ Ids(reloaded) = Ids(existing) \cup Ids(ret.batch)
            /\ \A k \in DOMAIN reloaded :
                   reloaded[k].id \in Ids(existing) =>
                       \E e \in DOMAIN existing : reloaded[k] = existing[e]

\* C20 witness: a batch of a record whose id exists with other content and a
\* record with a new id was merged into a file of two or more records
C20_Witness ==
    /\ ret.op = "merge"
    /\ ret.pre.exists
    /\ Len(ReadParquet(ret.pre.data)) >= 2
    /\ Len(ret.batch) = 2
    /\ ret.batch[1].id \in Ids(ReadParquet(ret.pre.data))
    /\ \A k \in DOMAIN ReadParquet(ret.pre.data) :
           ReadParquet(ret.pre.data)[k] # ret.batch[1]
    /\ ret.batch[2].id \notin Ids(ReadParquet(ret.pre.data))
    /\ Len(ret.out) = Len(ReadParquet(ret.pre.data)) + 1

\* ------------------------------------------------- claims, Spec, continued

\* C30: a Registry call that fails, other than a duplicate register, changes
\* neither the in-memory catalog, nor the catalog file, nor the default
\* pointer: register on a missing path or an unreadable file, set_default
\* and delete of an unknown name, rename of an unknown name or to a name in
\* use, rename(x, x) included.
C30_FailedCallsChangeNothing ==
    LET c == call[R]
        known == c.name \in Keys(c.preStores)
    IN  /\ c.op \in {"register", "set_default", "rename", "delete"}
           /\ c.result # "ok"
           /\ ~(c.op = "register" /\ c.result = "ValueError: already exists")
           => /\ stores[R] = c.preStores
              /\ files = c.preFiles
        /\ c.op \in {"set_default", "rename", "delete"} /\ ~known =>
               c.result = "KeyError"
        /\ c.op = "rename" /\ known /\ c.arg \in Keys(c.preStores) =>
               c.result = "ValueError: already exists"
        /\ c.op = "register" /\ ~known /\ ~c.preFiles[c.arg].exists =>
               c.result = "FileNotFoundError: parquet"

\* C30 witness: rename(x, x) of a registered store was refused in a
\* registry of two stores with a default pointer
C30_Witness ==
    /\ call[R].op = "rename"
    /\ call[R].name = call[R].arg
    /\ call[R].result = "ValueError: already exists"
    /\ Len(stores[R]) = 2
    /\ files["def"].exists

\* ---------------------------------------------------- claims, SpecMergeSteps

\* C21: at every step of a merge, and after a merge was interrupted at any
\* step, the store file is either the complete file from before the merge
\* or the complete merged collection, never a truncated or partial one.
C21_MergeWriteAtomic ==
    task.merge.pc # "idle" =>
        files["pathA"] \in
            { task.merge.pre,
              [exists |-> TRUE, data |-> WriteParquet(task.merge.merged)] }

\* --------------------------------------------------- claims, SpecMergeUnique

\* C22: starting from a store file with unique ids (or none), after any
\* sequence of merges of batches with unique ids, no id occurs more than
\* once in the store file.
C22_IdsStayUnique ==
    files["pathA"].exists =>
        /\ IsParquet(files["pathA"].data)
        /\ UniqueIds(ReadParquet(files["pathA"].data))

\* C22 witness: a merge brought a batch holding an id the file held next to
\* a new one, and the file now holds three or more records
C22_Witness ==
    /\ ret.op = "merge"
    /\ ret.pre.exists
    /\ Len(ret.batch) = 2
    /\ Ids(ret.batch) \cap Ids(ReadParquet(ret.pre.data)) # {}
    /\ Ids(ret.batch) \ Ids(ReadParquet(ret.pre.data)) # {}
    /\ Len(ReadParquet(files["pathA"].data)) >= 3

\* ----------------------------------------------------- claims, SpecLoadQuery

\* C23: at every point of a query() that runs next to a load() of the same
\* handle, the embedding cache has exactly one row per record of the loaded
\* record table, in the same order and from the same generation.
C23_QuerySeesWholeIndex ==
    task.query.pc # "idle" /\ index.loaded =>
        index.cache = [k \in DOMAIN index.df |-> index.df[k].embedding]

\* -------------------------------------------------------- claims, SpecSearch

C26_FailedLoadLeavesHandle ==
    ret.op = "load" /\ ret.result # "True" => index = NewHandle("pathA")

\* ------------------------------------------------------- claims, SpecHistory

\* C27: after add_query(q) with a non-empty q, q occurs exactly once in the
\* history and is its first element, also when q was in the history before;
\* the history holds at most max_items entries and no duplicate.
C27_AddQueryMostRecentFirst ==
    LET history == search_history.history
    IN  /\ Len(history) <= search_history.max_items
        /\ \A j, k \in DOMAIN history : history[j] = history[k] => j = k
        /\ ret.op = "add_query" /\ ret.query # "" =>
               /\ history # <<>>
               /\ history[1] = ret.query
               /\ Cardinality({k \in DOMAIN history : history[k] = ret.query}) = 1

\* C28: navigate_up and navigate_down leave the history as it is and keep
\* current_index in -1..len(history)-1; navigate_up moves it one step
\* towards the oldest entry and stays at the last one; navigate_down moves it
\* one step back, from 0 to -1, and stays at -1; each returns the query at
\* the new index, None for -1 or an empty history; n navigate_up calls from
\* -1 followed by n navigate_down calls end at -1.
C28_NavigationSaturates ==
    LET sh == search_history
        pre == ret.pre
        last == Len(pre.history) - 1
    IN  /\ sh.current_index \in -1..(Len(sh.history) - 1)
        /\ ret.op \in {"navigate_up", "navigate_down"} =>
               /\ sh.history = pre.history
               /\ ret.out = IF sh.current_index = -1 THEN NoneQuery
                            ELSE sh.history[sh.current_index + 1]
        /\ ret.op = "navigate_up" =>
               sh.current_index = Min(pre.current_index + 1, last)
        /\ ret.op = "navigate_down" =>
               /\ sh.current_index = IF pre.current_index <= 0 THEN -1
                                     ELSE pre.current_index - 1
               /\ ret.k >= 1 /\ ret.final_k = ret.k => sh.current_index = -1

\* C28 witness: three navigate_up calls from -1, the last one made at the
\* oldest of two entries, were followed by three navigate_down calls
C28_Witness ==
    /\ ret.op = "navigate_down"
    /\ ret.k = 3
    /\ ret.final_k = 3
    /\ Len(search_history.history) = 2
    /\ ret.pre.current_index = -1

\* ------------------------------------------------------- claims, SpecFilters

\* C29: when the date bounds apply_filters is given are not valid ISO
\* dates, the date filter is skipped: the results that pass the location and
\* character filters are returned, in their original order.
C29_InvalidDateSkipsFilter ==
    LET fl == ret.pre
    IN  /\ ret.op = "apply_filters"
        /\ ret.result = "ok"
        /\ Given(fl.date_start) \/ Given(fl.date_end)
        /\ Given(fl.date_start) => ~IsIsoDate(fl.date_start)
        /\ Given(fl.date_end) => ~IsIsoDate(fl.date_end)
        => /\ \A i \in DOMAIN ret.batch.metadatas :
                  LocationPasses(fl.location, ret.batch.metadatas[i])
                  /\ CharacterPasses(fl.character, ret.batch.metadatas[i])
                  => \E j \in DOMAIN ret.out.ids : ret.out.ids[j] = i
           /\ \A j, l \in DOMAIN ret.out.ids :
                  j < l => ret.out.ids[j] < ret.out.ids[l]

====
